---- MODULE Spec2Model ----
(***************************************************************************)
(* Verification model of stealth-fetch: the HTTP/2 flow-control window,    *)
(* the HTTP/2 connection engine and the request dispatcher.                *)
(*                                                                         *)
(* Three specifications share this module:                                 *)
(*   SpecFC    one FlowControlWindow driven by consume/update/reset/cancel *)
(*   SpecConn  one Http2Connection on the single-threaded event loop       *)
(*   SpecReq   one request() call of the dispatcher (retry + redirects)    *)
(*   SpecBody  one response body wrapped by createAutoCleanupStream        *)
(***************************************************************************)
EXTENDS Integers, Sequences, FiniteSets, TLC

(***************************************************************************)
(* Bounds of the model.                                                    *)
(***************************************************************************)
\* Stand-in for the protocol limit 0x7fffffff of flow-control.ts:59, scaled
\* down so that the overflow branch is reached in a few steps.
MaxWindow == 6
\* Largest size passed to consume() and largest increment passed to update().
MaxSize == 3
\* Number of consume() calls issued on the window under test.
MaxConsumes == 3
\* Number of update()/reset() calls issued on the window under test.
MaxUpdates == 2

\* --- Http2Connection.  Sizes are counted in units of one DATA payload or
\* one header-block fragment; the program's byte constants are scaled down
\* to the smallest values that keep every branch of the code reachable.
\* Requests (Http2Client.request calls) issued on the connection.
MaxRequests == 2
\* Stimuli the environment sends after initialize(): application calls, peer
\* frames beyond the handshake, timer expiries, loss of the socket.
MaxEvents == 3
\* DEFAULT_MAX_FRAME_SIZE (16384-byte default send-side payload limit), in
\* header-block fragments.
DEFAULT_MAX_FRAME_SIZE == 1
\* DEFAULT_MAX_HEADER_LIST_SIZE (80 KiB CONTINUATION budget), in fragments.
DEFAULT_MAX_HEADER_LIST_SIZE == 2
\* DEFAULT_INITIAL_WINDOW_SIZE (65535), in DATA payload units.
DEFAULT_INITIAL_WINDOW_SIZE == 1
\* OPTIMIZED_STREAM_WINDOW_SIZE (2 MiB) and OPTIMIZED_CONNECTION_WINDOW_SIZE
\* (4 MiB), in DATA payload units.
OPTIMIZED_STREAM_WINDOW_SIZE == 2
OPTIMIZED_CONNECTION_WINDOW_SIZE == 4
\* Longest header block a request encodes, in fragments.
MaxHeaderBlock == 2
\* Largest request body, in DATA payload units.
MaxBody == 1

\* --- Dispatcher.
\* Largest maxRedirects option of a request() call.
MaxRedirects == 1
\* Largest retry limit of a request() call.
MaxRetries == 1
\* Chunks the source stream of a response body delivers before it ends.
MaxChunks == 2
MaxHops == 2

(***************************************************************************)
(* FlowControlWindow (src/src/http2/flow-control.ts) as pure operators on  *)
(* a record [available, waiters, cancelled].  A waiter is [id, size]; the  *)
(* id stands for the promise handed back to the caller.                    *)
(***************************************************************************)
NewWindow(initialSize) ==
  [available |-> initialSize, waiters |-> <<>>, cancelled |-> FALSE]

\* consume(size): res is "noop" (size <= 0), "throw" (cancelled),
\* "granted" (debited at once) or "wait" (a waiter was pushed).
consume(w, id, size) ==
  IF size <= 0 THEN [win |-> w, res |-> "noop"]
  ELSE IF w.cancelled THEN [win |-> w, res |-> "throw"]
  ELSE IF w.available >= size
       THEN [win |-> [w EXCEPT !.available = @ - size], res |-> "granted"]
       ELSE [win |-> [w EXCEPT !.waiters = Append(@, [id |-> id, size |-> size])],
             res |-> "wait"]

RECURSIVE drainLoop(_, _)
drainLoop(w, done) ==
  IF Len(w.waiters) > 0 /\ w.available > 0
  THEN LET waiter == Head(w.waiters) IN
       IF w.available >= waiter.size
       THEN drainLoop([w EXCEPT !.available = @ - waiter.size,
                                !.waiters = Tail(@)],
                      Append(done, waiter.id))
       ELSE [win |-> w, granted |-> done]
  ELSE [win |-> w, granted |-> done]

\* Mutant of drainWaiters: the head waiter is resolved without being debited.
RECURSIVE drainLoop_NoDebit(_, _)
drainLoop_NoDebit(w, done) ==
  IF Len(w.waiters) > 0 /\ w.available > 0
  THEN LET waiter == Head(w.waiters) IN
       IF w.available >= waiter.size
       THEN [win |-> [w EXCEPT !.waiters = Tail(@)],
             granted |-> Append(done, waiter.id)]
       ELSE [win |-> w, granted |-> done]
  ELSE [win |-> w, granted |-> done]

drainWaiters_NoDebit(w) == drainLoop_NoDebit(w, <<>>)

\* drainWaiters(): granted lists the waiters resolved, in resolution order.
drainWaiters(w) == drainLoop(w, <<>>)

\* update(increment): the increment is added before the overflow test, and
\* the throw leaves it added.
update(w, increment) ==
  LET w1 == [w EXCEPT !.available = @ + increment] IN
  IF w1.available > MaxWindow
  THEN [win |-> w1, threw |-> TRUE, granted |-> <<>>]
  ELSE LET d == drainWaiters(w1) IN
       [win |-> d.win, threw |-> FALSE, granted |-> d.granted]

\* reset(newInitialSize, oldInitialSize)
reset(w, newInitialSize, oldInitialSize) ==
  LET delta == newInitialSize - oldInitialSize
      w1 == [w EXCEPT !.available = @ + delta] IN
  IF delta > 0
  THEN drainWaiters(w1)
  ELSE [win |-> w1, granted |-> <<>>]

\* cancel(): rejected lists the waiters whose promise is rejected.
cancel(w) ==
  [win |-> [w EXCEPT !.cancelled = TRUE, !.waiters = <<>>],
   rejected |-> [i \in 1..Len(w.waiters) |-> w.waiters[i].id]]

(***************************************************************************)
(* Http2Connection (src/unnamed/part_000) and Http2Stream                  *)
(* (src/src/http2/stream.ts) on the single-threaded event loop.            *)
(*                                                                         *)
(* The connection, its streams, its socket and the loop's microtask queue  *)
(* are one record c; every method is an operator from c to the next c, so  *)
(* that a handler that calls other methods is the composition of their     *)
(* operators.  Outbound frames carry the order of their submission (seq),  *)
(* the loop turn in which they were submitted (turn) and the coalescing    *)
(* window they were queued in (win; 0 for a frame given to writeMulti).    *)
(***************************************************************************)
NoTask == -1
InitTask == 0
Requests == 1..MaxRequests
\* Client stream ids are odd: request k, if it gets a stream, may get any of
\* the first MaxRequests odd ids.
StreamIds == {2 * k - 1 : k \in 1..MaxRequests}

OutFrame(type, sid, code, endStream, endHeaders) ==
  [type |-> type, sid |-> sid, code |-> code, endStream |-> endStream,
   endHeaders |-> endHeaders, increment |-> 0, seq |-> 0, turn |-> 0, win |-> 0]

encodeRstStream(sid, code) == OutFrame("RST_STREAM", sid, code, FALSE, FALSE)
encodeGoaway(lastStreamId, code) == OutFrame("GOAWAY", 0, code, FALSE, FALSE)
encodeWindowUpdate(sid, increment) ==
  [OutFrame("WINDOW_UPDATE", sid, "", FALSE, FALSE) EXCEPT !.increment = increment]
encodePing == OutFrame("PING", 0, "ACK", FALSE, FALSE)
encodeSettings(ack) == OutFrame("SETTINGS", 0, IF ack THEN "ACK" ELSE "", FALSE, FALSE)
encodeData(sid, endStream) == OutFrame("DATA", sid, "", endStream, FALSE)
encodeHeaders(sid, endStream, endHeaders) == OutFrame("HEADERS", sid, "", endStream, endHeaders)
encodeContinuation(sid, endHeaders) == OutFrame("CONTINUATION", sid, "", FALSE, endHeaders)
CONNECTION_PREFACE == OutFrame("PREFACE", 0, "", FALSE, FALSE)

\* Microtask jobs.
FlushJob == [kind |-> "flush", task |-> NoTask, ok |-> TRUE, sid |-> 0,
             block |-> <<>>, endStream |-> FALSE]
ResumeJob(t, ok) == [kind |-> "resume", task |-> t, ok |-> ok, sid |-> 0,
                     block |-> <<>>, endStream |-> FALSE]
DecodeJob(sid, block, endStream) ==
  [kind |-> "decode", task |-> NoTask, ok |-> TRUE, sid |-> sid,
   block |-> block, endStream |-> endStream]

\* A promise settles: the task awaiting it resumes in a later microtask.
RECURSIVE settle(_, _, _)
settle(c, ts, ok) ==
  IF ts = <<>> THEN c
  ELSE settle(IF Head(ts) = NoTask THEN c
              ELSE [c EXCEPT !.microtasks = Append(@, ResumeJob(Head(ts), ok))],
              Tail(ts), ok)

\* History: turn numbers the loop turns in which a frame was submitted.
turnOf(c) == IF c.turnOpen THEN c.turn ELSE c.turn + 1

noteSubmit(c, n) ==
  [c EXCEPT !.submitted = @ + n, !.turn = turnOf(c), !.turnOpen = TRUE]

\* Stamp a frame with its submission order.
Stamp(c, frame, k, win) ==
  [frame EXCEPT !.seq = c.submitted + k, !.turn = turnOf(c), !.win = win]

RECURSIVE StampAll(_, _, _)
StampAll(c, frames, k) ==
  IF frames = <<>> THEN <<>>
  ELSE <<Stamp(c, Head(frames), k, 0)>> \o StampAll(c, Tail(frames), k + 1)

\* socket.write(merged, callback): one write, one callback.  The socket is a
\* Duplex: a write issued after end() or after the socket closed is not
\* transmitted and its callback reports the error.  A callback that settles
\* only promises nobody awaits is left out.
socketWrite(c, frames, resolvers) ==
  LET awaited == SelectSeq(resolvers, LAMBDA t : t # NoTask) IN
  [c EXCEPT !.socketWrites = Append(@, frames),
            !.writeCallbacks =
               IF awaited = <<>> THEN @
               ELSE Append(@, [resolvers |-> awaited,
                               ok |-> ~c.socketEnded /\ ~c.socketClosed])]

\* writeRaw(data): queue the frame and schedule one flush per window.
writeRaw(c, frame, resolver) ==
  noteSubmit(
    [c EXCEPT !.pendingWrites = Append(@, Stamp(c, frame, 1, c.flushes + 1)),
              !.flushPromiseResolvers = Append(@, resolver),
              !.flushScheduled = TRUE,
              !.microtasks = IF c.flushScheduled THEN @ ELSE Append(@, FlushJob)],
    1)

\* Mutant of flush: every pending frame goes out in a socket.write() of its
\* own.
RECURSIVE writeEach(_, _, _)
writeEach(c, frames, resolvers) ==
  IF frames = <<>> THEN c
  ELSE writeEach(socketWrite(c, <<Head(frames)>>, <<Head(resolvers)>>),
                 Tail(frames), Tail(resolvers))

flush_PerFrame(c) ==
  writeEach([c EXCEPT !.flushScheduled = FALSE,
                      !.pendingWrites = <<>>,
                      !.flushPromiseResolvers = <<>>,
                      !.flushes = @ + 1],
            c.pendingWrites, c.flushPromiseResolvers)

\* flush(): everything pending goes out as a single socket.write().
flush(c) ==
  LET c1 == [c EXCEPT !.flushScheduled = FALSE,
                      !.pendingWrites = <<>>,
                      !.flushPromiseResolvers = <<>>,
                      !.flushes = @ + 1] IN
  IF c.pendingWrites = <<>> THEN c1
  ELSE socketWrite(c1, c.pendingWrites, c.flushPromiseResolvers)

\* Mutant of writeMulti: only the first frame is written at once, the rest
\* goes through the coalescing queue.
RECURSIVE queueEach(_, _, _)
queueEach(c, frames, resolver) ==
  IF frames = <<>> THEN c
  ELSE queueEach(writeRaw(c, Head(frames),
                          IF Len(frames) = 1 THEN resolver ELSE NoTask),
                 Tail(frames), resolver)

writeMulti_FirstOnly(c, frames, resolver) ==
  IF frames = <<>> THEN settle(c, <<resolver>>, TRUE)
  ELSE queueEach(
         socketWrite(noteSubmit([c EXCEPT !.multiWrites = @ + 1], 1),
                     StampAll(c, <<Head(frames)>>, 1),
                     <<IF Len(frames) = 1 THEN resolver ELSE NoTask>>),
         Tail(frames), resolver)

\* writeMulti(frames): one immediate socket.write(), no microtask delay.
writeMulti(c, frames, resolver) ==
  IF frames = <<>> THEN settle(c, <<resolver>>, TRUE)
  ELSE socketWrite(noteSubmit([c EXCEPT !.multiWrites = @ + 1], Len(frames)),
                   StampAll(c, frames, 1), <<resolver>>)

(***************************************************************************)
(* Http2Stream                                                             *)
(***************************************************************************)
NewStream(initialSendWindowSize) ==
  [state |-> "idle",
   sendWindow |-> NewWindow(initialSendWindowSize),
   recvWindowConsumed |-> 0,
   responseHeaders |-> FALSE,   \* response HEADERS have been delivered
   response |-> "none",         \* none | waiting | resolved | rejected
   waiter |-> NoTask,           \* task inside waitForResponse
   bodyStreamClosed |-> FALSE,
   body |-> "open",             \* open | closed | errored
   resetCode |-> ""]            \* code of the last handleRstStream

NoStreamObj == [NewStream(0) EXCEPT !.state = "none"]

closeBody(c, sid) ==
  IF ~c.stream[sid].bodyStreamClosed
  THEN [c EXCEPT !.stream[sid].bodyStreamClosed = TRUE, !.stream[sid].body = "closed"]
  ELSE c

closeBodyWithError(c, sid) ==
  IF ~c.stream[sid].bodyStreamClosed
  THEN [c EXCEPT !.stream[sid].bodyStreamClosed = TRUE, !.stream[sid].body = "errored"]
  ELSE c

\* The response promise is rejected if a waitForResponse call is pending.
rejectResponse(c, sid) ==
  IF c.stream[sid].response = "waiting"
  THEN settle([c EXCEPT !.stream[sid].response = "rejected",
                        !.stream[sid].waiter = NoTask],
              <<c.stream[sid].waiter>>, FALSE)
  ELSE c

\* Http2Stream.close(): closed, send window cancelled, body closed, and the
\* connection's "close" listener removes the stream from the streams map.
Stream_close(c, sid) ==
  LET k == cancel(c.stream[sid].sendWindow)
      c1 == settle([c EXCEPT !.stream[sid].state = "closed",
                             !.stream[sid].sendWindow = k.win],
                   k.rejected, FALSE)
      c2 == closeBody(c1, sid) IN
  [c2 EXCEPT !.streams = @ \ {sid}]

handleRstStream(c, sid, errorCode) ==
  Stream_close(closeBodyWithError(rejectResponse(
                 [c EXCEPT !.stream[sid].resetCode = errorCode], sid), sid), sid)

handleRemoteEndStream(c, sid) ==
  LET st == c.stream[sid].state
      c1 == IF st = "open" THEN [c EXCEPT !.stream[sid].state = "half-closed-remote"]
            ELSE IF st = "half-closed-local" THEN Stream_close(c, sid)
            ELSE c IN
  closeBody(c1, sid)

open(c, sid) == [c EXCEPT !.stream[sid].state = "open"]

halfCloseLocal(c, sid) ==
  LET st == c.stream[sid].state IN
  IF st = "open" THEN [c EXCEPT !.stream[sid].state = "half-closed-local"]
  ELSE IF st = "half-closed-remote" THEN Stream_close(c, sid)
  ELSE c

\* handleHeaders(headers, endStream); statusOk is FALSE when the decoded
\* list carries a :status outside 100..599.
handleHeaders(c, sid, statusOk, endStream) ==
  LET c0 == [c EXCEPT !.stream[sid].responseHeaders = TRUE] IN
  IF ~statusOk
  THEN closeBodyWithError(rejectResponse(c0, sid), sid)
  ELSE LET c1 == IF c0.stream[sid].response = "waiting"
                 THEN settle([c0 EXCEPT !.stream[sid].response = "resolved",
                                        !.stream[sid].waiter = NoTask],
                             <<c0.stream[sid].waiter>>, TRUE)
                 ELSE c0 IN
       IF endStream THEN handleRemoteEndStream(c1, sid) ELSE c1

handleData(c, sid, endStream) ==
  IF endStream THEN handleRemoteEndStream(c, sid) ELSE c

\* handleWindowUpdate(increment): threw is TRUE on window overflow.
handleWindowUpdate(c, sid, increment) ==
  LET u == update(c.stream[sid].sendWindow, increment) IN
  [c |-> settle([c EXCEPT !.stream[sid].sendWindow = u.win], u.granted, TRUE),
   threw |-> u.threw]


(***************************************************************************)
(* Http2Connection                                                         *)
(***************************************************************************)
Unset == -1
SettingsIds == {"MAX_CONCURRENT_STREAMS", "INITIAL_WINDOW_SIZE", "MAX_FRAME_SIZE",
                "ENABLE_PUSH"}

\* remoteSettings.get(id) ?? dflt
remoteSetting(c, id, dflt) ==
  IF c.remoteSettings[id] = Unset THEN dflt ELSE c.remoteSettings[id]

\* get maxConcurrentStreams (default 100: never the binding limit here)
maxConcurrentStreams(c) == remoteSetting(c, "MAX_CONCURRENT_STREAMS", 100)

Min(a, b) == IF a < b THEN a ELSE b
MinOf(S) == CHOOSE x \in S : \A y \in S : x <= y

NewTask == [pc |-> "idle", sid |-> 0, hdr |-> 0, body |-> 0, endStream |-> FALSE,
            viaReady |-> FALSE]

\* The state after `new Http2Connection(socket, options)`.
NewConnection ==
  [closed |-> FALSE, goawayReceived |-> FALSE, initialized |-> FALSE,
   nextStreamId |-> 1,
   streams |-> {},
   stream |-> [s \in StreamIds |-> NoStreamObj],
   connectionSendWindow |-> NewWindow(DEFAULT_INITIAL_WINDOW_SIZE),
   connectionRecvWindowConsumed |-> 0,
   lastRemoteInitialWindowSize |-> DEFAULT_INITIAL_WINDOW_SIZE,
   remoteSettings |-> [id \in SettingsIds |-> Unset],
   pendingWrites |-> <<>>, flushPromiseResolvers |-> <<>>, flushScheduled |-> FALSE,
   settingsAckResolve |-> FALSE, remoteSettingsResolve |-> FALSE,
   settingsAckResolved |-> FALSE, remoteSettingsResolved |-> FALSE,
   readyPromise |-> FALSE, readyWaiters |-> <<>>,
   continuationStreamId |-> 0, continuationBuffer |-> <<>>,
   continuationBufferSize |-> 0, continuationEndStream |-> FALSE,
   parserErrored |-> FALSE, feeding |-> FALSE,
   socketWrites |-> <<>>, writeCallbacks |-> <<>>, socketEnded |-> FALSE,
   socketClosed |-> FALSE,
   microtasks |-> <<>>, appJob |-> FALSE,
   task |-> [t \in 0..(MaxRequests + 1) |-> NewTask],
   \* history
   submitted |-> 0, flushes |-> 0, multiWrites |-> 0, turn |-> 0, turnOpen |-> FALSE,
   events |-> 0, received |-> 0, hsSettings |-> FALSE, hsAck |-> FALSE,
   detected |-> {}, fatal |-> "", refused |-> {},
   \* pooled: the pool holds this client and its listener is on "goaway";
   \* closedOnGoaway / goawayFailed: that listener called close(), and the
   \* streams that close() then cancelled (history)
   pooled |-> FALSE, closedOnGoaway |-> FALSE, goawayFailed |-> {}]

CloseTask == MaxRequests + 1

\* stream.handleRstStream(code) for every stream in the map, in map order.
RECURSIVE rstEach(_, _, _)
rstEach(c, ids, code) ==
  IF ids = {} THEN c
  ELSE LET s == MinOf(ids) IN rstEach(handleRstStream(c, s, code), ids \ {s}, code)

\* connectionSendWindow.cancel()
cancelConnectionWindow(c) ==
  LET k == cancel(c.connectionSendWindow) IN
  settle([c EXCEPT !.connectionSendWindow = k.win], k.rejected, FALSE)

\* A connection-level protocol error was detected (history only).
detect(c, errorCode) == [c EXCEPT !.detected = @ \cup {errorCode}]

\* sendGoawayAndClose(errorCode)
sendGoawayAndClose(c, errorCode) ==
  IF c.closed THEN c
  ELSE LET c1 == writeRaw(detect(c, errorCode),
                          encodeGoaway(c.nextStreamId - 2, errorCode), NoTask)
           c2 == rstEach([c1 EXCEPT !.closed = TRUE], c1.streams, "CANCEL")
           c3 == cancelConnectionWindow([c2 EXCEPT !.streams = {}]) IN
       [c3 EXCEPT !.socketEnded = TRUE, !.fatal = errorCode]

\* handleError(err): parser errors.
handleError(c, frameSize) ==
  sendGoawayAndClose(c, IF frameSize THEN "FRAME_SIZE_ERROR" ELSE "PROTOCOL_ERROR")

\* handleSocketClose()
handleSocketClose(c) ==
  IF ~c.closed
  THEN cancelConnectionWindow(
         [rstEach([c EXCEPT !.closed = TRUE], c.streams, "CANCEL") EXCEPT !.streams = {}])
  ELSE c

\* HpackDecoder.decode(block): a block is the sequence of its field
\* representations: "fld" (indexed or literal field), "status?" (a field that
\* is a :status outside 100..599), "upd" (dynamic table size update within
\* the table size) and "upd!" (size update above the table size).
RECURSIVE decodeLoop(_, _)
decodeLoop(block, seenNonUpdate) ==
  IF block = <<>> THEN TRUE
  ELSE IF Head(block) \in {"upd", "upd!"}
       THEN IF seenNonUpdate THEN FALSE
            ELSE IF Head(block) = "upd!" THEN FALSE
            ELSE decodeLoop(Tail(block), seenNonUpdate)
       ELSE decodeLoop(Tail(block), TRUE)

\* ok is FALSE when decode throws.
decode(block) ==
  [ok |-> decodeLoop(block, FALSE),
   statusOk |-> \A i \in 1..Len(block) : block[i] # "status?"]

\* processHeaderBlock, up to its await of decode().
processHeaderBlock(c, streamId, headerBlock, endStream) ==
  IF streamId \notin c.streams THEN c
  ELSE IF c.stream[streamId].state \in {"half-closed-remote", "closed"}
  THEN writeRaw(c, encodeRstStream(streamId, "STREAM_CLOSED"), NoTask)
  ELSE [c EXCEPT !.microtasks = Append(@, DecodeJob(streamId, headerBlock, endStream))]

\* processHeaderBlock, after decode() has settled.
processHeaderBlockDecoded(c, streamId, headerBlock, endStream) ==
  LET d == decode(headerBlock) IN
  IF d.ok THEN handleHeaders(c, streamId, d.statusOk, endStream)
  ELSE sendGoawayAndClose(c, "COMPRESSION_ERROR")

handleDataFrame(c, f) ==
  IF f.sid \notin c.streams THEN c
  ELSE IF c.stream[f.sid].state \in {"half-closed-remote", "closed"}
  THEN writeRaw(c, encodeRstStream(f.sid, "STREAM_CLOSED"), NoTask)
  ELSE IF f.shape = "bad" THEN sendGoawayAndClose(c, "PROTOCOL_ERROR")
  ELSE
    LET c1 == handleData(c, f.sid, f.endStream) IN
    IF f.val > 0
    THEN LET connConsumed == c1.connectionRecvWindowConsumed + f.val
             strmConsumed == c1.stream[f.sid].recvWindowConsumed + f.val
             connUpd == connConsumed >= OPTIMIZED_CONNECTION_WINDOW_SIZE \div 2
             strmUpd == ~f.endStream /\ strmConsumed >= OPTIMIZED_STREAM_WINDOW_SIZE \div 2
             updates == (IF connUpd THEN <<encodeWindowUpdate(0, connConsumed)>> ELSE <<>>)
                        \o (IF strmUpd THEN <<encodeWindowUpdate(f.sid, strmConsumed)>>
                            ELSE <<>>)
             c2 == [c1 EXCEPT
                      !.connectionRecvWindowConsumed = IF connUpd THEN 0 ELSE connConsumed,
                      !.stream[f.sid].recvWindowConsumed = IF strmUpd THEN 0 ELSE strmConsumed]
         IN IF updates # <<>> THEN writeMulti(c2, updates, NoTask) ELSE c2
    ELSE c1

handleHeadersFrame(c, f) ==
  IF f.shape = "bad" THEN sendGoawayAndClose(c, "PROTOCOL_ERROR")
  ELSE IF f.endHeaders THEN processHeaderBlock(c, f.sid, f.block, f.endStream)
  ELSE [c EXCEPT !.continuationStreamId = f.sid,
                 !.continuationBuffer = f.block,
                 !.continuationBufferSize = Len(f.block),
                 !.continuationEndStream = f.endStream]

\* stream.sendWindow.reset(value, oldSize) for every stream in the map.
RECURSIVE resetEach(_, _, _, _)
resetEach(c, ids, value, oldSize) ==
  IF ids = {} THEN c
  ELSE LET s == MinOf(ids)
           r == reset(c.stream[s].sendWindow, value, oldSize) IN
       resetEach(settle([c EXCEPT !.stream[s].sendWindow = r.win], r.granted, TRUE),
                 ids \ {s}, value, oldSize)

\* The loop over the SETTINGS entries: done is FALSE when an entry was
\* rejected (GOAWAY sent, handler returned early).
RECURSIVE applySettings(_, _)
applySettings(c, entries) ==
  IF entries = <<>> THEN [c |-> c, done |-> TRUE]
  ELSE
    LET id == Head(entries).id
        value == Head(entries).value IN
    IF id = "INITIAL_WINDOW_SIZE" /\ value > MaxWindow
    THEN [c |-> sendGoawayAndClose(c, "FLOW_CONTROL_ERROR"), done |-> FALSE]
    ELSE IF id = "MAX_FRAME_SIZE" /\ value < DEFAULT_MAX_FRAME_SIZE
    THEN [c |-> sendGoawayAndClose(c, "PROTOCOL_ERROR"), done |-> FALSE]
    ELSE IF id = "ENABLE_PUSH" /\ value > 1
    THEN [c |-> sendGoawayAndClose(c, "PROTOCOL_ERROR"), done |-> FALSE]
    ELSE
      LET c1 == [c EXCEPT !.remoteSettings[id] = value]
          c2 == IF id = "INITIAL_WINDOW_SIZE"
                THEN [resetEach(c1, c1.streams, value, c1.lastRemoteInitialWindowSize)
                        EXCEPT !.lastRemoteInitialWindowSize = value]
                ELSE c1 IN
      applySettings(c2, Tail(entries))

\* readyPromise = Promise.all([remoteSettingsPromise, settingsAckPromise]):
\* once both are resolved every waitForReady() in progress resumes.
readyResolved(c) == c.remoteSettingsResolved /\ c.settingsAckResolved

wakeReady(c) ==
  IF readyResolved(c) /\ c.readyWaiters # <<>>
  THEN settle([c EXCEPT !.readyWaiters = <<>>], c.readyWaiters, TRUE)
  ELSE c

handleSettingsFrame(c, f) ==
  IF f.sid # 0 THEN sendGoawayAndClose(c, "PROTOCOL_ERROR")
  ELSE IF f.ack
  THEN IF f.shape = "bad" THEN sendGoawayAndClose(c, "FRAME_SIZE_ERROR")
       ELSE IF c.settingsAckResolve
       THEN wakeReady([c EXCEPT !.settingsAckResolve = FALSE,
                                !.settingsAckResolved = TRUE])
       ELSE c
  ELSE IF f.shape = "bad" THEN sendGoawayAndClose(c, "FRAME_SIZE_ERROR")
  ELSE
    LET a == applySettings(c, f.set) IN
    IF ~a.done THEN a.c
    ELSE LET c1 == writeRaw(a.c, encodeSettings(TRUE), NoTask) IN
         IF c1.remoteSettingsResolve
         THEN wakeReady([c1 EXCEPT !.remoteSettingsResolve = FALSE,
                                   !.remoteSettingsResolved = TRUE])
         ELSE c1

handleWindowUpdateFrame(c, f) ==
  IF f.shape = "bad" THEN sendGoawayAndClose(c, "FRAME_SIZE_ERROR")
  ELSE IF f.val = 0
  THEN IF f.sid = 0
       THEN writeRaw(detect(c, "PROTOCOL_ERROR"), encodeGoaway(0, "PROTOCOL_ERROR"), NoTask)
       ELSE writeRaw(c, encodeRstStream(f.sid, "PROTOCOL_ERROR"), NoTask)
  ELSE IF f.sid = 0
  THEN LET u == update(c.connectionSendWindow, f.val)
           c1 == settle([c EXCEPT !.connectionSendWindow = u.win], u.granted, TRUE) IN
       IF u.threw THEN sendGoawayAndClose(c1, "FLOW_CONTROL_ERROR") ELSE c1
  ELSE IF f.sid \in c.streams
  THEN LET h == handleWindowUpdate(c, f.sid, f.val) IN
       IF h.threw
       THEN writeRaw(h.c, encodeRstStream(f.sid, "FLOW_CONTROL_ERROR"), NoTask)
       ELSE h.c
  ELSE c

handlePingFrame(c, f) ==
  IF f.shape = "bad" THEN sendGoawayAndClose(c, "FRAME_SIZE_ERROR")
  ELSE IF f.ack THEN c
  ELSE writeRaw(c, encodePing, NoTask)

\* The "goaway" listener of the pool (connection-pool.ts 95-101): the entry
\* is deleted and close() called, which sets closed and queues
\* GOAWAY(NO_ERROR); the rest of close() follows that write.
onGoaway(c) ==
  IF ~c.pooled THEN c
  ELSE IF c.closed THEN [c EXCEPT !.pooled = FALSE]
  ELSE writeRaw([c EXCEPT !.pooled = FALSE, !.closed = TRUE,
                          !.closedOnGoaway = TRUE,
                          !.task[CloseTask].pc = "close:goaway"],
                encodeGoaway(c.nextStreamId - 2, "NO_ERROR"), CloseTask)

handleGoawayFrame(c, f) ==
  IF f.shape = "bad" THEN sendGoawayAndClose(c, "FRAME_SIZE_ERROR")
  ELSE LET above == {id \in c.streams : id > f.val}
           c1 == rstEach([c EXCEPT !.goawayReceived = TRUE], above, "REFUSED_STREAM") IN
       onGoaway([c1 EXCEPT !.streams = @ \ above, !.refused = @ \cup above])

handleRstStreamFrame(c, f) ==
  IF f.shape = "bad" THEN sendGoawayAndClose(c, "FRAME_SIZE_ERROR")
  ELSE IF f.sid \in c.streams THEN handleRstStream(c, f.sid, f.code)
  ELSE c

handleFrame(c, f) ==
  IF c.continuationStreamId # 0
  THEN IF f.type # "CONTINUATION" \/ f.sid # c.continuationStreamId
       THEN sendGoawayAndClose(c, "PROTOCOL_ERROR")
       ELSE LET size == c.continuationBufferSize + Len(f.block) IN
            IF size > DEFAULT_MAX_HEADER_LIST_SIZE
            THEN sendGoawayAndClose([c EXCEPT !.continuationStreamId = 0,
                                              !.continuationBuffer = <<>>,
                                              !.continuationBufferSize = 0],
                                    "ENHANCE_YOUR_CALM")
            ELSE IF f.endHeaders
            THEN processHeaderBlock([c EXCEPT !.continuationStreamId = 0,
                                              !.continuationBuffer = <<>>,
                                              !.continuationBufferSize = 0,
                                              !.continuationEndStream = FALSE],
                                    c.continuationStreamId,
                                    c.continuationBuffer \o f.block,
                                    c.continuationEndStream)
            ELSE [c EXCEPT !.continuationBufferSize = size,
                           !.continuationBuffer = @ \o f.block]
  ELSE CASE f.type = "DATA" -> handleDataFrame(c, f)
         [] f.type = "HEADERS" -> handleHeadersFrame(c, f)
         [] f.type = "SETTINGS" -> handleSettingsFrame(c, f)
         [] f.type = "WINDOW_UPDATE" -> handleWindowUpdateFrame(c, f)
         [] f.type = "PING" -> handlePingFrame(c, f)
         [] f.type = "GOAWAY" -> handleGoawayFrame(c, f)
         [] f.type = "RST_STREAM" -> handleRstStreamFrame(c, f)
         [] f.type = "PUSH_PROMISE" ->
              writeRaw(detect(c, "PROTOCOL_ERROR"), encodeGoaway(0, "PROTOCOL_ERROR"), NoTask)
         [] OTHER -> c


(***************************************************************************)
(* The calls of Http2Client.request and Http2Connection.initialize/close,  *)
(* cut at their awaits.  task[t].pc names the await a call is suspended at.*)
(***************************************************************************)
setPc(c, t, pc) == [c EXCEPT !.task[t].pc = pc]

\* `await window.consume(size)` by task t on the connection window.
awaitConnectionWindow(c, t, size) ==
  LET r == consume(c.connectionSendWindow, t, size)
      c1 == [c EXCEPT !.connectionSendWindow = r.win] IN
  IF r.res = "wait" THEN c1
  ELSE settle(c1, <<t>>, r.res # "throw")

\* `await stream.sendWindow.consume(size)` by task t.
awaitStreamWindow(c, t, sid, size) ==
  LET r == consume(c.stream[sid].sendWindow, t, size)
      c1 == [c EXCEPT !.stream[sid].sendWindow = r.win] IN
  IF r.res = "wait" THEN c1
  ELSE settle(c1, <<t>>, r.res # "throw")

\* createStream(): sid is 0 when it throws.
createStream(c) ==
  IF c.goawayReceived \/ c.closed THEN [c |-> c, sid |-> 0]
  ELSE IF Cardinality(c.streams) >= maxConcurrentStreams(c) THEN [c |-> c, sid |-> 0]
  ELSE LET streamId == c.nextStreamId IN
       [c |-> [c EXCEPT !.nextStreamId = @ + 2,
                        !.stream[streamId] =
                           NewStream(remoteSetting(c, "INITIAL_WINDOW_SIZE",
                                                   DEFAULT_INITIAL_WINDOW_SIZE)),
                        !.streams = @ \cup {streamId}],
        sid |-> streamId]

\* waitForReady that does not wait for the SETTINGS exchange.
waitForReady_NoWait(c, t) ==
  IF c.initialized THEN settle(c, <<t>>, TRUE)
  ELSE IF ~c.readyPromise THEN settle(c, <<t>>, FALSE)
  ELSE settle([c EXCEPT !.task[t].viaReady = TRUE], <<t>>, TRUE)

\* waitForReady(timeout) called by task t, up to its await.
waitForReady(c, t) ==
  IF c.initialized THEN settle(c, <<t>>, TRUE)
  ELSE IF ~c.readyPromise THEN settle(c, <<t>>, FALSE)
  ELSE IF readyResolved(c) THEN settle([c EXCEPT !.task[t].viaReady = TRUE], <<t>>, TRUE)
  ELSE [c EXCEPT !.task[t].viaReady = TRUE, !.readyWaiters = Append(@, t)]

\* The CONTINUATION frames of sendHeaders' while loop.
RECURSIVE continuationFrames(_, _, _, _)
continuationFrames(sid, offset, length, maxPayload) ==
  IF offset < length
  THEN LET chunkSize == Min(length - offset, maxPayload)
           endHeaders == offset + chunkSize >= length IN
       <<encodeContinuation(sid, endHeaders)>>
       \o continuationFrames(sid, offset + chunkSize, length, maxPayload)
  ELSE <<>>

\* sendHeaders, from the end of its Promise.all to the await of the write.
sendHeadersWrite(c, t) ==
  LET tk == c.task[t]
      maxPayload == remoteSetting(c, "MAX_FRAME_SIZE", DEFAULT_MAX_FRAME_SIZE) IN
  IF tk.hdr <= maxPayload
  THEN writeRaw(c, encodeHeaders(tk.sid, tk.endStream, TRUE), t)
  ELSE writeMulti(c, <<encodeHeaders(tk.sid, tk.endStream, FALSE)>>
                     \o continuationFrames(tk.sid, maxPayload, tk.hdr, maxPayload), t)

\* stream.waitForResponse() called by task t.
waitForResponse(c, t) ==
  LET sid == c.task[t].sid
      c1 == setPc(c, t, "waitForResponse") IN
  IF c.stream[sid].responseHeaders THEN settle(c1, <<t>>, TRUE)
  ELSE [c1 EXCEPT !.stream[sid].response = "waiting", !.stream[sid].waiter = t]

\* sendBufferData: the head of one loop iteration, or the code after the loop.
sendBufferDataLoop(c, t) ==
  LET tk == c.task[t]
      maxPayload == remoteSetting(c, "MAX_FRAME_SIZE", DEFAULT_MAX_FRAME_SIZE) IN
  IF tk.body > 0
  THEN awaitConnectionWindow(setPc(c, t, "sendData:conn"), t, Min(tk.body, maxPayload))
  ELSE waitForResponse(halfCloseLocal(c, tk.sid), t)

\* Http2Client.request: the code after `await sendHeaders(...)`.
afterSendHeaders(c, t) ==
  LET tk == c.task[t]
      c1 == open(c, tk.sid)
      c2 == IF tk.endStream THEN halfCloseLocal(c1, tk.sid) ELSE c1 IN
  IF tk.endStream THEN waitForResponse(c2, t)
  ELSE sendBufferDataLoop(c2, t)

\* The continuation of task t after the promise it awaited has settled.
resumeTask(c, t, ok) ==
  LET tk == c.task[t]
      maxPayload == remoteSetting(c, "MAX_FRAME_SIZE", DEFAULT_MAX_FRAME_SIZE)
      failed == setPc(c, t, "failed") IN
  CASE tk.pc = "init:preface" ->
         IF ok
         THEN writeMulti(setPc(c, t, "init:settings"),
                <<encodeSettings(FALSE)>>
                \o (IF OPTIMIZED_CONNECTION_WINDOW_SIZE - DEFAULT_INITIAL_WINDOW_SIZE > 0
                    THEN <<encodeWindowUpdate(0, OPTIMIZED_CONNECTION_WINDOW_SIZE
                                                 - DEFAULT_INITIAL_WINDOW_SIZE)>>
                    ELSE <<>>), t)
         ELSE failed
    [] tk.pc = "init:settings" ->
         IF ok
         THEN [setPc(c, t, "done") EXCEPT !.remoteSettingsResolve = TRUE,
                                          !.settingsAckResolve = TRUE,
                                          !.remoteSettingsResolved = FALSE,
                                          !.settingsAckResolved = FALSE,
                                          !.readyPromise = TRUE]
         ELSE failed
    [] tk.pc = "sendHeaders:ready" ->
         IF ok
         THEN sendHeadersWrite(
                [setPc(c, t, "sendHeaders:write")
                   EXCEPT !.initialized = (c.initialized \/ tk.viaReady)], t)
         ELSE failed
    [] tk.pc = "sendHeaders:write" ->
         IF ok THEN afterSendHeaders(c, t) ELSE failed
    [] tk.pc = "sendData:conn" ->
         IF ok
         THEN awaitStreamWindow(setPc(c, t, "sendData:stream"), t, tk.sid,
                                Min(tk.body, maxPayload))
         ELSE waitForResponse(c, t)
    [] tk.pc = "sendData:stream" ->
         IF ok
         THEN LET chunkSize == Min(tk.body, maxPayload) IN
              writeRaw([setPc(c, t, "sendData:write") EXCEPT !.task[t].body = @ - chunkSize],
                       encodeData(tk.sid, tk.body - chunkSize <= 0), t)
         ELSE waitForResponse(c, t)
    [] tk.pc = "sendData:write" ->
         IF ok
         THEN IF tk.body > 0 THEN sendBufferDataLoop(c, t)
              ELSE waitForResponse(halfCloseLocal(c, tk.sid), t)
         ELSE failed
    [] tk.pc = "waitForResponse" ->
         IF ok THEN setPc(c, t, "done") ELSE failed
    [] tk.pc = "close:goaway" ->
         LET c1 == rstEach(c, c.streams, "CANCEL")
             c2 == cancelConnectionWindow([c1 EXCEPT !.streams = {}]) IN
         [setPc(c2, t, "done") EXCEPT
            !.socketEnded = TRUE,
            !.goawayFailed = IF c.closedOnGoaway THEN c.streams ELSE @]
    [] OTHER -> c


(***************************************************************************)
(* The dispatcher (src/src/client.ts): one request() call, cut at its      *)
(* awaits.  q.pc names the await the call is suspended at:                 *)
(*   transport        the h2Request/http11Request/autoRequest of doRequest *)
(*   discardRedirect  consumeAndDiscard of a redirect response (doRequest) *)
(*   discardRetry     consumeAndDiscard of a retryable response (request)  *)
(*   sleepStatus      the backoff sleep after a retryable status           *)
(*   sleepError       the backoff sleep after a failed attempt             *)
(* and "returned" / "rejected" say how the call settled.  A response is    *)
(* the record [status, location, body, cleaned, cleanups]: cleaned is the  *)
(* flag of its auto-cleanup stream, cleanups counts the runs of its        *)
(* cleanup closure, which releases the socket or the HTTP/2 client.        *)
(***************************************************************************)
Urls == {"https://a/", "https://a/x", "https://b/", "http://c/"}
\* parseUrl(url).protocol
protocolOf(url) == IF url = "http://c/" THEN "http" ELSE "https"
\* parseUrl(url).hostname
hostnameOf(url) ==
  CASE url = "https://b/" -> "b"
    [] url = "http://c/" -> "c"
    [] OTHER -> "a"
\* parseUrl(url).port: no URL of the model names a port.
portOf(url) == IF protocolOf(url) = "https" THEN 443 ELSE 80
\* Location header values: none, a relative reference to the root path, or
\* an absolute URL.
Locations == {"", "/"} \cup Urls
\* new URL(location, baseUrl).href for the relative reference "/": the root
\* of the base URL's origin.
resolveRedirectUrl(baseUrl, location) ==
  IF location = "/"
  THEN (IF baseUrl = "https://a/x" THEN "https://a/" ELSE baseUrl)
  ELSE location

isOriginChange(from, to) ==
  \/ hostnameOf(from) # hostnameOf(to)
  \/ portOf(from) # portOf(to)
  \/ protocolOf(from) # protocolOf(to)

\* Header names as a caller may write them, and String.toLowerCase on them.
HeaderNames == {"Authorization", "cookie", "Proxy-Authorization", "Host", "X-Id"}
toLowerCase(name) ==
  CASE name = "Authorization" -> "authorization"
    [] name = "Proxy-Authorization" -> "proxy-authorization"
    [] name = "Host" -> "host"
    [] name = "X-Id" -> "x-id"
    [] OTHER -> name

\* The header sets callers pass in options.headers (names only).
HeaderInputs ==
  {{}, {"Authorization", "X-Id"}, {"cookie", "Proxy-Authorization", "Host"}}

\* Mutant of normalizeHeaders: the keys keep the caller's casing.
normalizeHeaders_KeepCase(headers) ==
  {key \in headers : toLowerCase(key) \notin
     {"host", "connection", "transfer-encoding", "keep-alive", "upgrade",
      "accept-encoding", "content-length", "x-real-ip", "true-client-ip",
      "cdn-loop"}}

\* normalizeHeaders(headers): the keys of its result.
normalizeHeaders(headers) ==
  {toLowerCase(key) : key \in headers}
    \ {"host", "connection", "transfer-encoding", "keep-alive", "upgrade",
       "accept-encoding", "content-length", "x-real-ip", "true-client-ip",
       "cdn-loop"}

SensitiveHeaders == {"authorization", "cookie", "proxy-authorization"}

Methods == {"GET", "POST"}
Bodies == {"none", "bytes", "stream", "locked"}
Statuses == {200, 302, 307, 503}
DEFAULT_RETRY_METHODS == {"GET", "HEAD", "OPTIONS", "PUT", "DELETE"}
DEFAULT_RETRY_STATUS_CODES == {408, 413, 429, 500, 502, 503, 504}

\* wrapResponse(...): the response as handed over by the transport.
\* h2Client and socket are what the cleanup closure has captured: "none"
\* (null), "held", and after cleanup "pooled" / "closed" / "destroyed".
wrapResponse(status, location) ==
  [status |-> status, location |-> location, body |-> "open",
   cleaned |-> FALSE, cleanups |-> 0,
   h2Client |-> "none", socket |-> "held", poolOrigin |-> FALSE,
   hasCapacity |-> FALSE]

\* What a response may hold: the socket of an HTTP/1.1 exchange, or the
\* HTTP/2 client with or without a pool origin; hasCapacity is the client's
\* answer when cleanup asks.
Holdings ==
  {[h2Client |-> "none", socket |-> "held", poolOrigin |-> FALSE, hasCapacity |-> FALSE]}
  \cup {[h2Client |-> "held", socket |-> "none", poolOrigin |-> p, hasCapacity |-> c] :
          p, c \in BOOLEAN}

\* wrapResponse(..., h2Client, socket, poolOrigin, ...)
holding(r, h) ==
  [r EXCEPT !.h2Client = h.h2Client, !.socket = h.socket,
            !.poolOrigin = h.poolOrigin, !.hasCapacity = h.hasCapacity]

\* The cleanup closure of wrapResponse: pool or close the HTTP/2 client,
\* destroy the socket.
cleanup(r) ==
  [r EXCEPT !.cleanups = @ + 1,
            !.h2Client = IF @ = "held"
                         THEN (IF r.poolOrigin /\ r.hasCapacity THEN "pooled" ELSE "closed")
                         ELSE @,
            !.socket = IF @ = "held" THEN "destroyed" ELSE @]

\* Mutant of doCleanup: the cleaned flag is not tested.
doCleanup_NoGuard(r) == cleanup([r EXCEPT !.cleaned = TRUE])

\* doCleanup of createAutoCleanupStream
doCleanup(r) == IF r.cleaned THEN r ELSE cleanup([r EXCEPT !.cleaned = TRUE])

\* pull(controller) when the source reports done / when the read throws.
pullDone(r) == doCleanup([r EXCEPT !.body = "closed"])
pullError(r) == doCleanup([r EXCEPT !.body = "errored"])
\* cancel(reason)
cancelBody(r) == [doCleanup(r) EXCEPT !.body = "cancelled"]

\* pull(controller), from the settling of `await reader.read()` on.  On a
\* stream that is no longer readable controller.close() and
\* controller.enqueue() throw, the catch block runs, controller.error() has
\* no effect and doCleanup() is called.
pull(r, result) ==
  IF r.body # "open" THEN doCleanup(r)
  ELSE CASE result = "done" -> pullDone(r)
         [] result = "error" -> pullError(r)
         [] OTHER -> r

\* Default highWaterMark of `new ReadableStream({start, pull, cancel})`.
HighWaterMark == 1

\* The stream returned by createAutoCleanupStream(source, onCleanup), after
\* start() has taken the source's reader.  pulling: a pull() is suspended at
\* its await; queued: chunks enqueued and not yet read by the consumer.
NewBody ==
  [r |-> wrapResponse(200, ""), pulling |-> FALSE, queued |-> 0,
   \* history: chunks delivered by the source, doCleanup() calls, events
   chunks |-> 0, asked |-> 0, log |-> <<>>]

\* The state before request() is called.
NewRequest ==
  [pc |-> "idle", url |-> "", method |-> "", body |-> "none",
   follow |-> TRUE, maxRedirects |-> 0, retryLimit |-> 0, canRetry |-> FALSE,
   userAborted |-> FALSE, timedOut |-> FALSE, timer |-> FALSE,
   attempt |-> 0,
   headers |-> {},
   currentUrl |-> "", currentMethod |-> "", currentBody |-> "none",
   currentHeaders |-> {},
   redirectCount |-> 0, visitedUrls |-> {},
   responses |-> <<>>, returned |-> 0, error |-> "",
   \* history: the URLs handed to the transport, in order, the number of
   \* doRequest calls, and the requests of the current doRequest call with
   \* the header names each carried
   requested |-> <<>>, attempts |-> 0, chain |-> <<>>]

\* internalSignal.aborted
signalAborted(q) == q.userAborted \/ q.timedOut

\* request(): the outer catch and the finally block.
requestRejects(q, err) ==
  [q EXCEPT !.pc = "rejected", !.timer = FALSE,
            !.error = IF q.timedOut THEN "TimeoutError"
                      ELSE IF q.userAborted THEN "AbortError"
                      ELSE err]

\* Mutant of doRequestThrew: the retry does not look at canRetry.
doRequestThrew_AnyMethod(q, err) ==
  IF q.retryLimit = 0 THEN requestRejects(q, err)
  ELSE IF q.attempt < q.retryLimit /\ ~signalAborted(q)
  THEN [q EXCEPT !.pc = "sleepError"]
  ELSE requestRejects(q, err)

\* request(): an error thrown by doRequest, by consumeAndDiscard or by the
\* sleep inside the retry loop's try block.
doRequestThrew(q, err) ==
  IF q.retryLimit = 0 THEN requestRejects(q, err)
  ELSE IF q.canRetry /\ q.attempt < q.retryLimit /\ ~signalAborted(q)
  THEN [q EXCEPT !.pc = "sleepError"]
  ELSE requestRejects(q, err)

\* request(): doRequest has returned response i.
doRequestReturned(q, i) ==
  IF /\ q.retryLimit # 0
     /\ q.canRetry
     /\ q.attempt < q.retryLimit
     /\ q.responses[i].status \in DEFAULT_RETRY_STATUS_CODES
  THEN [q EXCEPT !.pc = "discardRetry"]
  ELSE [q EXCEPT !.pc = "returned", !.returned = i, !.timer = FALSE]

\* request(): `await sleep(delay, internalSignal)` after a retryable status.
sleepAfterStatus(q) ==
  IF signalAborted(q) THEN doRequestThrew(q, "AbortError")
  ELSE [q EXCEPT !.pc = "sleepStatus"]

\* doRequest: one pass of the while loop up to the await of the transport.
doRequestLoop(q) ==
  IF signalAborted(q) THEN doRequestThrew(q, "AbortError")
  ELSE [q EXCEPT !.pc = "transport", !.requested = Append(@, q.currentUrl),
                 !.chain = Append(@, [url |-> q.currentUrl,
                                      headers |-> q.currentHeaders])]

\* doRequest: entry.
doRequest(q) ==
  doRequestLoop([q EXCEPT !.currentUrl = q.url, !.currentMethod = q.method,
                          !.currentBody = q.body, !.redirectCount = 0,
                          !.currentHeaders =
                            normalizeHeaders(q.headers) \cup {"accept-encoding"},
                          !.visitedUrls = {}, !.attempts = @ + 1,
                          !.chain = <<>>])

\* doRequest: from the transport's response i to the await of
\* consumeAndDiscard.
afterResponse(q, i) ==
  LET r == q.responses[i] IN
  IF ~q.follow \/ r.status < 300 \/ r.status >= 400
  THEN doRequestReturned(q, i)
  ELSE LET q1 == [q EXCEPT !.redirectCount = @ + 1] IN
       IF q1.redirectCount > q1.maxRedirects
       THEN doRequestThrew(q1, "Maximum redirects exceeded")
       ELSE IF r.location = "" THEN doRequestReturned(q1, i)
       ELSE [q1 EXCEPT !.pc = "discardRedirect"]

\* doRequest: from the return of consumeAndDiscard(response i) to the next
\* pass of the loop.
afterDiscard(q, i) ==
  LET r == q.responses[i]
      resolvedUrl == resolveRedirectUrl(q.currentUrl, r.location) IN
  IF protocolOf(q.currentUrl) = "https" /\ protocolOf(resolvedUrl) = "http"
  THEN doRequestThrew(q, "Refused to follow redirect from HTTPS to HTTP")
  ELSE IF resolvedUrl \in q.visitedUrls
  THEN doRequestThrew(q, "Redirect loop detected")
  ELSE LET q1 == [q EXCEPT !.visitedUrls = @ \cup {resolvedUrl}]
           q2 == IF r.status \in {301, 302, 303}
                 THEN [q1 EXCEPT !.currentMethod = "GET",
                                 !.currentBody = "none",
                                 !.currentHeaders =
                                   @ \ {"content-type", "content-length",
                                        "content-encoding"}]
                 ELSE q1
       IN
       IF r.status \notin {301, 302, 303} /\ q1.currentBody = "stream"
       THEN doRequestThrew(q1, "Cannot follow redirect with a ReadableStream body")
       ELSE doRequestLoop(
              [q2 EXCEPT !.currentHeaders =
                           (IF isOriginChange(q.currentUrl, resolvedUrl)
                            THEN @ \ SensitiveHeaders ELSE @) \cup {"host"},
                         !.currentUrl = resolvedUrl])

\* The retry option of a call: absent, false, a number, or an object with a
\* limit.  An object without a limit is written limit |-> -1; the calls
\* explored here always give one.
RetryOptions ==
  {[kind |-> k, limit |-> -1] : k \in {"undefined", "false"}}
  \cup {[kind |-> "number", limit |-> n] : n \in 0..MaxRetries}
  \cup {[kind |-> "object", limit |-> n] : n \in 0..MaxRetries}

\* normalizeRetry(retry).limit, 0 standing for the null result as well:
\* request() treats both alike.
normalizeRetry(retry) ==
  IF retry.kind \in {"undefined", "false"} THEN 0
  ELSE IF retry.kind = "number" THEN retry.limit
  ELSE IF retry.limit = -1 THEN 2
  ELSE retry.limit

\* request(url, options), up to its first await.
request(q) ==
  IF q.userAborted THEN [q EXCEPT !.pc = "rejected", !.error = "AbortError"]
  ELSE IF q.body = "locked"
  THEN [q EXCEPT !.pc = "rejected", !.error = "TypeError"]
  ELSE doRequest([q EXCEPT !.timer = TRUE, !.attempt = 0,
                           !.canRetry = (q.method \in DEFAULT_RETRY_METHODS
                                         /\ q.body # "stream")])

(***************************************************************************)
(* tryWithNat64 (client.ts): one call of a transport over the NAT64        *)
(* candidates of a target.  An attempt is attemptFn(candidate,             *)
(* perPrefixSignal), here autoRequestWithSocket: connect, then either an   *)
(* HTTP/1.1 exchange or the HTTP/2 handshake followed by the exchange.     *)
(***************************************************************************)
NAT64_PREFIX_COUNT == 3
Candidates == 0..(NAT64_PREFIX_COUNT - 1)

\* One attempt.  cancelled is cancelController.signal.aborted, timedOut the
\* state of AbortSignal.timeout(NAT64_PER_PREFIX_TIMEOUT); deaf says that
\* perPrefixSignal fired while no listener was registered (during
\* `await connection.startInitialize()`), so that the exchange runs on.
\* sent: the request, body included, has been written to the server.
\* why is the cause that ended the attempt; response is the state of the
\* response the attempt produced.
NewAttempt ==
  [phase |-> "none", alpn |-> "", cancelled |-> FALSE, timedOut |-> FALSE,
   deaf |-> FALSE, sent |-> FALSE, result |-> "none", why |-> "",
   response |-> "none"]

\* The health tracker's entry of one prefix.
NewStat == [ok |-> 0, fail |-> 0]

\* recordNat64PrefixResult(prefix, ok, ms) on the health map.
recordNat64PrefixResult(health, prefix, ok) ==
  IF ok THEN [health EXCEPT ![prefix].ok = @ + 1]
  ELSE [health EXCEPT ![prefix].fail = @ + 1]

\* The state before tryWithNat64 is called.
NewNat64 ==
  [pc |-> "idle", candidates |-> 0, isStreamBody |-> FALSE,
   isIdempotent |-> FALSE, aborted |-> FALSE,
   awaiting |-> {}, delayPending |-> FALSE, cleanupFor |-> {},
   attempt |-> [i \in Candidates |-> NewAttempt],
   health |-> [i \in Candidates |-> NewStat],
   \* history: the hedge delay has elapsed with candidate 0 pending
   delayElapsed |-> FALSE]

InFlight(a) == a.phase \in {"connecting", "initializing", "exchange", "closing"}

\* perPrefixSignal.aborted of attempt i
perPrefixAborted(s, i) ==
  s.aborted \/ s.attempt[i].cancelled \/ s.attempt[i].timedOut

\* startAttempt(candidates[i], i): the attempt starts to connect.
startAttempt(s, i) ==
  [s EXCEPT !.attempt[i].phase = "connecting"]

\* startAttempt's async body from the settling of attemptFn on: the result
\* of the attempt and what it records.  A response that arrives for an
\* attempt whose promise carries the loser's then-callback has its body
\* cancelled there.
attemptSettles(s, i, ok, why) ==
  IF ok
  THEN [s EXCEPT !.attempt[i].phase = "done", !.attempt[i].result = "ok",
                 !.attempt[i].response =
                   IF i \in s.cleanupFor THEN "cancelled" ELSE "open",
                 !.health = recordNat64PrefixResult(@, i, TRUE)]
  ELSE IF s.attempt[i].cancelled /\ ~s.aborted
  THEN [s EXCEPT !.attempt[i].phase = "done",
                 !.attempt[i].result = "cancelled-by-hedge",
                 !.attempt[i].why = IF @ = "" THEN why ELSE @]
  ELSE [s EXCEPT !.attempt[i].phase = "done", !.attempt[i].result = "failed",
                 !.attempt[i].why = IF @ = "" THEN why ELSE @,
                 !.health = recordNat64PrefixResult(@, i, FALSE)]

\* perPrefixSignal of attempt i fires: abortableConnect rejects a pending
\* connect; nothing listens during the HTTP/2 handshake; during the
\* exchange the listener destroys the HTTP/1.1 socket, or starts
\* client.close(), whose GOAWAY write is awaited before the request fails.
abortAttempt(s, i, why) ==
  LET a == s.attempt[i] IN
  CASE a.phase = "connecting" -> attemptSettles(s, i, FALSE, why)
    [] a.phase = "initializing" -> [s EXCEPT !.attempt[i].deaf = TRUE]
    [] a.phase = "exchange" /\ ~a.deaf /\ a.alpn = "http/1.1" ->
         attemptSettles(s, i, FALSE, why)
    [] a.phase = "exchange" /\ ~a.deaf /\ a.alpn = "h2" ->
         [s EXCEPT !.attempt[i].phase = "closing", !.attempt[i].why = why]
    [] OTHER -> s

\* loser.loserCancel(): cancelController.abort(...)
loserCancel(s, i) ==
  LET s1 == [s EXCEPT !.attempt[i].cancelled = TRUE] IN
  IF perPrefixAborted(s, i) THEN s1 ELSE abortAttempt(s1, i, "cancel")

\* tryWithNat64 returns the response of attempt i.
returns(s, i) ==
  [s EXCEPT !.pc = "returned", !.awaiting = {}, !.delayPending = FALSE,
            !.attempt[i].response = "returned"]

\* tryWithNat64 throws.
throws(s) ==
  [s EXCEPT !.pc = "thrown", !.awaiting = {}, !.delayPending = FALSE]

\* One pass of a serial loop, from candidate i on.
serialLoop(s, i, pc) ==
  IF i >= s.candidates THEN throws(s)
  ELSE IF s.aborted THEN throws(s)
  ELSE [startAttempt(s, i) EXCEPT !.pc = pc, !.awaiting = {i}]

\* Mutant of tryWithNat64: the second candidate starts with the first.
tryWithNat64_NoDelay(s) ==
  IF s.candidates = 0 THEN throws(s)
  ELSE IF s.isStreamBody \/ (s.isIdempotent /\ s.candidates = 1)
  THEN (IF s.aborted THEN throws(s)
        ELSE [startAttempt(s, 0) EXCEPT !.pc = "single", !.awaiting = {0}])
  ELSE IF ~s.isIdempotent THEN serialLoop(s, 0, "serial")
  ELSE [startAttempt(startAttempt(s, 0), 1) EXCEPT
          !.pc = "race", !.awaiting = {0, 1}]

\* tryWithNat64(...), up to its first await.
tryWithNat64(s) ==
  IF s.candidates = 0 THEN throws(s)
  ELSE IF s.isStreamBody \/ (s.isIdempotent /\ s.candidates = 1)
  THEN (IF s.aborted THEN throws(s)
        ELSE [startAttempt(s, 0) EXCEPT !.pc = "single", !.awaiting = {0}])
  ELSE IF ~s.isIdempotent THEN serialLoop(s, 0, "serial")
  ELSE [startAttempt(s, 0) EXCEPT !.pc = "firstOrDelay", !.awaiting = {0},
                                  !.delayPending = TRUE]

\* tryWithNat64 goes on after the promise of attempt i, which it awaits,
\* has settled.
resume(s, i) ==
  LET r == s.attempt[i].result
      other == 1 - i
  IN
  IF i \notin s.awaiting THEN s
  ELSE IF r = "ok"
  THEN (IF s.pc = "race"
        THEN returns([loserCancel(s, other) EXCEPT !.cleanupFor = {other}], i)
        ELSE returns(s, i))
  ELSE IF s.aborted THEN throws(s)
  ELSE CASE s.pc = "single" -> throws(s)
         [] s.pc \in {"serial", "tail"} -> serialLoop(s, i + 1, s.pc)
         [] s.pc = "firstOrDelay" ->
              [startAttempt(s, 1) EXCEPT !.pc = "secondOnly", !.awaiting = {1},
                                         !.delayPending = FALSE]
         [] s.pc = "race" -> [s EXCEPT !.pc = "remaining", !.awaiting = {other}]
         [] OTHER -> serialLoop(s, 2, "tail")

\* The caller's signal fires: every perPrefixSignal that has not fired yet
\* fires, a pending hedge delay rejects, and tryWithNat64 goes on after the
\* first awaited promise that settled.
signalAborts(s) ==
  LET fire(t, i) == IF InFlight(t.attempt[i]) /\ ~perPrefixAborted(s, i)
                    THEN abortAttempt(t, i, "abort") ELSE t
      s1 == fire(fire(fire([s EXCEPT !.aborted = TRUE], 0), 1), 2)
      settled == {i \in s.awaiting : s1.attempt[i].phase = "done"}
  IN
  IF s.delayPending \/ settled = {}
  THEN (IF s.delayPending THEN throws(s1) ELSE s1)
  ELSE resume(s1, CHOOSE i \in settled : \A j \in settled : i <= j)

(***************************************************************************)
(* DNS and CDN detection cache (dns-cache, part_009) with the single-      *)
(* flight wrapper resolveAndCheckCloudflareCached and the uncached         *)
(* resolveNat64IPv4 (client.ts).  Time is counted in ticks; the TTL clamp  *)
(* is scaled to ticks.                                                     *)
(***************************************************************************)
MaxCallers == 2
MaxTime == 3
MIN_TTL == 2
MAX_TTL == 3
NEGATIVE_TTL == 1
DNS_MAX_ENTRIES == 1

Hostnames == {"a", "A", "b"}
\* hostname.toLowerCase()
hostKey(hostname) == IF hostname = "A" THEN "a" ELSE hostname

\* What a DoH lookup can answer: an address with a TTL in ticks.
DnsAnswers == {[ipv4 |-> "ip1", ttl |-> 1], [ipv4 |-> "ip2", ttl |-> 4]}
\* The result cached when the lookup fails.
Degraded == [ipv4 |-> "null", ttl |-> 0]

\* The Map of the cache, in insertion order.
cacheHas(cache, key) == \E i \in 1..Len(cache) : cache[i].key = key
cacheGet(cache, key) == cache[CHOOSE i \in 1..Len(cache) : cache[i].key = key]
cacheDelete(cache, key) == SelectSeq(cache, LAMBDA e : e.key # key)

\* getCachedDns(hostname): the cache afterwards (an expired entry is
\* deleted, a live one moves to the end).
getCachedDns_cache(cache, now, key) ==
  IF ~cacheHas(cache, key) THEN cache
  ELSE IF now > cacheGet(cache, key).expiresAt THEN cacheDelete(cache, key)
  ELSE Append(cacheDelete(cache, key), cacheGet(cache, key))

\* getCachedDns(hostname): the result, "miss" for null.
getCachedDns(cache, now, key) ==
  IF ~cacheHas(cache, key) \/ now > cacheGet(cache, key).expiresAt
  THEN "miss"
  ELSE cacheGet(cache, key).ipv4

\* setCachedDns(hostname, result)
setCachedDns(cache, now, key, result) ==
  LET ttlMs == IF result.ttl > 0
               THEN (IF result.ttl < MIN_TTL THEN MIN_TTL
                     ELSE IF result.ttl > MAX_TTL THEN MAX_TTL ELSE result.ttl)
               ELSE NEGATIVE_TTL
      evicted == IF Len(cache) >= DNS_MAX_ENTRIES /\ ~cacheHas(cache, key)
                 THEN Tail(cache) ELSE cache
  IN Append(cacheDelete(evicted, key),
            [key |-> key, ipv4 |-> result.ipv4, expiresAt |-> now + ttlMs,
             \* history: the query this entry came from
             from |-> result.from])

DnsCallers == 1..MaxCallers

\* The state of the detector before any caller: the cache, the dnsInflight
\* map (its keys), each caller's position, and the history of the DoH
\* A-record queries: their key, who issued them, and whether the key had a
\* live cache entry or a lookup in flight when they were issued, and their
\* answer.  of is the query whose result a caller was handed.
NewDns ==
  [now |-> 0, cache |-> <<>>, dnsInflight |-> {},
   caller |-> [c \in DnsCallers |->
                 [pc |-> "idle", key |-> "", seen |-> "", of |-> 0]],
   queries |-> <<>>]

\* The query of the lookup in flight for a key: the last one issued for it
\* by the wrapper.
inflightQuery(d, key) ==
  CHOOSE i \in 1..Len(d.queries) :
    /\ d.queries[i].key = key /\ d.queries[i].by = "lookup"
    /\ \A j \in (i + 1)..Len(d.queries) :
         ~(d.queries[j].key = key /\ d.queries[j].by = "lookup")

\* The key has a live cache entry or a lookup in flight.
dnsCovered(d, key) ==
  \/ key \in d.dnsInflight
  \/ cacheHas(d.cache, key) /\ d.now <= cacheGet(d.cache, key).expiresAt

\* resolveAndCheckCloudflareCached(hostname) by caller c, up to its return
\* or its await of the lookup promise.
resolveAndCheckCloudflareCached(d, c, hostname) ==
  LET key == hostKey(hostname)
      cached == getCachedDns(d.cache, d.now, key)
      d1 == [d EXCEPT !.cache = getCachedDns_cache(@, d.now, key),
                      !.caller[c].key = key]
  IN
  IF cached # "miss"
  THEN [d1 EXCEPT !.caller[c].pc = "checked", !.caller[c].seen = cached,
                  !.caller[c].of = cacheGet(d.cache, key).from]
  ELSE IF key \in d.dnsInflight
  THEN [d1 EXCEPT !.caller[c].pc = "lookup",
                  !.caller[c].of = inflightQuery(d, key)]
  ELSE [d1 EXCEPT !.caller[c].pc = "lookup",
                  !.caller[c].of = Len(d.queries) + 1,
                  !.dnsInflight = @ \cup {key},
                  !.queries = Append(@, [key |-> key, by |-> "lookup",
                                         covered |-> dnsCovered(d1, key),
                                         answer |-> "pending"])]

\* The lookup promise of a key settles with a result: it is cached, the
\* in-flight entry is deleted and every caller awaiting it resumes.
lookupSettles(d, key, result) ==
  [d EXCEPT !.cache = setCachedDns(@, d.now, key,
                                   [ipv4 |-> result.ipv4, ttl |-> result.ttl,
                                    from |-> inflightQuery(d, key)]),
            !.dnsInflight = @ \ {key},
            !.queries[inflightQuery(d, key)].answer = result.ipv4,
            !.caller = [c \in DnsCallers |->
                          IF @[c].pc = "lookup" /\ @[c].key = key
                          THEN [@[c] EXCEPT !.pc = "checked",
                                            !.seen = result.ipv4]
                          ELSE @[c]]]

\* resolveNat64IPv4(hostname, existingIPv4) by caller c, up to its return
\* or its await of resolveIPv4.
resolveNat64IPv4(d, c, existingIPv4) ==
  IF existingIPv4 # "null" /\ existingIPv4 # "undefined"
  THEN [d EXCEPT !.caller[c].pc = "done"]
  ELSE [d EXCEPT !.caller[c].pc = "resolveIPv4",
                 !.queries = Append(@, [key |-> d.caller[c].key,
                                        by |-> "resolveIPv4",
                                        covered |-> dnsCovered(d, d.caller[c].key),
                                        answer |-> "pending"])]

(***************************************************************************)
(* The connection pool (connection-pool.ts).  The pool is a Map in         *)
(* insertion order from key to {client, lastUsedAt}; goawayRegistered is   *)
(* the WeakSet of clients that already carry the pool's GOAWAY listener.   *)
(* A client is the part of Http2Client the pool reads: isReady (connection *)
(* initialized, not closed, no GOAWAY received), the stream counts, and    *)
(* the listeners of its "goaway" event, each remembering the key of the    *)
(* poolClient call that registered it.                                     *)
(***************************************************************************)
MaxClients == 2
MaxClock == 2
POOL_TTL == 1
MAX_POOL_SIZE == 2

PoolClients == 1..MaxClients
PoolOrigins ==
  { [hostname |-> "a", connectHostname |-> ""],
    [hostname |-> "a", connectHostname |-> "p"],
    [hostname |-> "b", connectHostname |-> ""] }

makeKey(hostname, connectHostname) ==
  IF connectHostname # "" THEN hostname \o ":443@" \o connectHostname
  ELSE hostname \o ":443"

NewClient ==
  [ initialized |-> FALSE, closed |-> FALSE, goawayReceived |-> FALSE,
    activeStreamCount |-> 0, maxConcurrentStreams |-> 1, onGoaway |-> <<>> ]

isReady(client) ==
  client.initialized /\ ~client.closed /\ ~client.goawayReceived

hasCapacity(client) ==
  isReady(client) /\ client.activeStreamCount < client.maxConcurrentStreams

NoReturn == [ key |-> "", client |-> 0, age |-> 0, hasCapacity |-> FALSE ]

NewPool ==
  [ now |-> 0, pool |-> <<>>, goawayRegistered |-> {},
    client |-> [c \in PoolClients |-> NewClient],
    returned |-> NoReturn ]

poolHas(pool, key) == \E i \in 1..Len(pool) : pool[i].key = key
poolGet(pool, key) == pool[CHOOSE i \in 1..Len(pool) : pool[i].key = key]
poolDelete(pool, key) == SelectSeq(pool, LAMBDA e : e.key # key)
poolSet(pool, key, client, now) ==
  IF poolHas(pool, key)
  THEN [i \in 1..Len(pool) |->
          IF pool[i].key = key
          THEN [key |-> key, client |-> client, lastUsedAt |-> now]
          ELSE pool[i]]
  ELSE Append(pool, [key |-> key, client |-> client, lastUsedAt |-> now])

\* Http2Client.close: the connection is marked closed at once; its streams
\* are cancelled.
clientClose(p, c) ==
  [p EXCEPT !.client[c].closed = TRUE,
            !.client[c].activeStreamCount =
               IF p.client[c].closed THEN @ ELSE 0]

\* The first entry with the strictly smallest lastUsedAt.
oldestKey(pool) ==
  LET i == CHOOSE i \in 1..Len(pool) :
             /\ \A j \in 1..Len(pool) : pool[i].lastUsedAt <= pool[j].lastUsedAt
             /\ \A j \in 1..(i - 1) : pool[j].lastUsedAt > pool[i].lastUsedAt
  IN pool[i].key

getPooledClient_NoCapacityCheck(p, key) ==
  IF ~poolHas(p.pool, key) THEN [p EXCEPT !.returned = NoReturn]
  ELSE
    LET entry == poolGet(p.pool, key) IN
    IF p.now - entry.lastUsedAt > POOL_TTL
    THEN [clientClose(p, entry.client) EXCEPT
            !.pool = poolDelete(p.pool, key), !.returned = NoReturn]
    ELSE [p EXCEPT
            !.pool = poolSet(p.pool, key, entry.client, p.now),
            !.returned = [ key |-> key, client |-> entry.client,
                           age |-> p.now - entry.lastUsedAt,
                           hasCapacity |-> hasCapacity(p.client[entry.client]) ]]

getPooledClient(p, key) ==
  IF ~poolHas(p.pool, key) THEN [p EXCEPT !.returned = NoReturn]
  ELSE
    LET entry == poolGet(p.pool, key) IN
    IF p.now - entry.lastUsedAt > POOL_TTL
    THEN [clientClose(p, entry.client) EXCEPT
            !.pool = poolDelete(p.pool, key), !.returned = NoReturn]
    ELSE IF ~hasCapacity(p.client[entry.client])
    THEN [clientClose(p, entry.client) EXCEPT
            !.pool = poolDelete(p.pool, key), !.returned = NoReturn]
    ELSE [p EXCEPT
            !.pool = poolSet(p.pool, key, entry.client, p.now),
            !.returned = [ key |-> key, client |-> entry.client,
                           age |-> p.now - entry.lastUsedAt,
                           hasCapacity |-> hasCapacity(p.client[entry.client]) ]]

poolEvict(p, key) ==
  IF Len(p.pool) >= MAX_POOL_SIZE /\ ~poolHas(p.pool, key)
  THEN LET k == oldestKey(p.pool) IN
       [clientClose(p, poolGet(p.pool, k).client) EXCEPT
          !.pool = poolDelete(p.pool, k)]
  ELSE p

poolReplace(p, key, client) ==
  IF poolHas(p.pool, key) /\ poolGet(p.pool, key).client # client
  THEN clientClose(p, poolGet(p.pool, key).client)
  ELSE p

poolClient_NoDedup(p, key, client) ==
  LET p1 == poolReplace(poolEvict(p, key), key, client)
      p2 == [p1 EXCEPT !.goawayRegistered = @ \cup {client},
                       !.client[client].onGoaway = Append(@, key)]
  IN [p2 EXCEPT !.pool = poolSet(p2.pool, key, client, p2.now)]

poolClient(p, key, client) ==
  LET p1 == poolReplace(poolEvict(p, key), key, client)
      p2 == IF client \notin p1.goawayRegistered
            THEN [p1 EXCEPT !.goawayRegistered = @ \cup {client},
                            !.client[client].onGoaway = Append(@, key)]
            ELSE p1
  IN [p2 EXCEPT !.pool = poolSet(p2.pool, key, client, p2.now)]

removePooled(p, key) ==
  IF poolHas(p.pool, key)
  THEN [clientClose(p, poolGet(p.pool, key).client) EXCEPT
          !.pool = poolDelete(p.pool, key)]
  ELSE p

RECURSIVE closeAll(_, _)
closeAll(p, entries) ==
  IF entries = <<>> THEN p
  ELSE closeAll(clientClose(p, Head(entries).client), Tail(entries))

clearPool(p) == [closeAll(p, p.pool) EXCEPT !.pool = <<>>]

\* The listener the pool registers on a client (connection-pool.ts 95-101).
goawayListener(p, key, client) ==
  IF poolHas(p.pool, key) /\ poolGet(p.pool, key).client = client
  THEN [clientClose(p, client) EXCEPT !.pool = poolDelete(p.pool, key)]
  ELSE p

RECURSIVE emitGoaway(_, _, _)
emitGoaway(p, client, listeners) ==
  IF listeners = <<>> THEN p
  ELSE emitGoaway(goawayListener(p, Head(listeners), client), client,
                  Tail(listeners))

\* handleGoawayFrame as the pool sees it: the flag, then the listeners.
handleGoaway(p, client) ==
  emitGoaway([p EXCEPT !.client[client].goawayReceived = TRUE], client,
             p.client[client].onGoaway)

(***************************************************************************)
(* The protocol memo (protocol-cache.ts): a Map in insertion order from    *)
(* "host:port" to {protocol, ts}.  Beside it the model keeps two records   *)
(* of history: recency, the keys held ordered from the least to the most   *)
(* recently read or written, and last, what the latest call removed.       *)
(***************************************************************************)
MaxMemoClock == 2
PROTOCOL_TTL == 1
PROTOCOL_MAX_ENTRIES == 3

MemoHosts == {"a", "b", "c", "d"}
Protocols == {"h2", "http/1.1"}
protocolKey(hostname) == hostname \o ":443"

NoEviction == [ evicted |-> "", newKey |-> FALSE, full |-> FALSE, least |-> "" ]

NewMemo == [ now |-> 0, cache |-> <<>>, recency |-> <<>>, last |-> NoEviction,
             got |-> "null" ]

memoHas(cache, key) == \E i \in 1..Len(cache) : cache[i].key = key
memoGet(cache, key) == cache[CHOOSE i \in 1..Len(cache) : cache[i].key = key]
memoDelete(cache, key) == SelectSeq(cache, LAMBDA e : e.key # key)
\* Map.set: a key already present keeps its place in the order.
memoSet(cache, key, entry) ==
  IF memoHas(cache, key)
  THEN [i \in 1..Len(cache) |-> IF cache[i].key = key THEN entry ELSE cache[i]]
  ELSE Append(cache, entry)

forget(recency, key) == SelectSeq(recency, LAMBDA k : k # key)
touch(recency, key) == Append(forget(recency, key), key)

getCachedProtocol(m, key) ==
  IF ~memoHas(m.cache, key)
  THEN [m EXCEPT !.got = "null", !.last = NoEviction]
  ELSE
    LET entry == memoGet(m.cache, key) IN
    IF m.now - entry.ts > PROTOCOL_TTL
    THEN [m EXCEPT !.cache = memoDelete(m.cache, key),
                   !.recency = forget(m.recency, key),
                   !.got = "null", !.last = NoEviction]
    ELSE [m EXCEPT !.cache = Append(memoDelete(m.cache, key), entry),
                   !.recency = touch(m.recency, key),
                   !.got = entry.protocol, !.last = NoEviction]

setCachedProtocol(m, key, protocol) ==
  LET full == Len(m.cache) >= PROTOCOL_MAX_ENTRIES
      firstKey == m.cache[1].key
      cache1 == IF full THEN memoDelete(m.cache, firstKey) ELSE m.cache
      recency1 == IF full THEN forget(m.recency, firstKey) ELSE m.recency
  IN [m EXCEPT
        !.cache = memoSet(cache1, key,
                          [key |-> key, protocol |-> protocol, ts |-> m.now]),
        !.recency = touch(recency1, key),
        !.last = IF full
                 THEN [ evicted |-> firstKey,
                        newKey |-> ~memoHas(m.cache, key),
                        full |-> TRUE,
                        least |-> Head(m.recency) ]
                 ELSE NoEviction]

(***************************************************************************)
(* h2RequestWithConnect (client.ts): one request over a pooled or a fresh  *)
(* HTTP/2 client.                                                          *)
(***************************************************************************)
\* The origin of the request, and the client a connect of its own opens.
HrKey == makeKey("a", "")
FreshClient == MaxClients + 1
FailureCauses == {"network", "goaway", "headersTimeout"}

NewRetry ==
  [ pc |-> "idle", client |-> 0, fromPool |-> FALSE, aborted |-> FALSE,
    connects |-> 0, requests |-> 0, freshClosed |-> FALSE,
    failedOn |-> 0, abortedAtCatch |-> FALSE, thrown |-> "" ]

\* client.close() on the client the call holds.
hrClose(s, client) ==
  IF client = FreshClient THEN [s EXCEPT !.hr.freshClosed = TRUE]
  ELSE [s EXCEPT !.pool = clientClose(s.pool, client)]

hrClosed(s, client) ==
  IF client = FreshClient THEN s.hr.freshClosed ELSE s.pool.client[client].closed

\* throwIfAborted, getPooledClient, then connect or client.request.
h2RequestWithConnect(s) ==
  IF s.hr.aborted THEN [s EXCEPT !.hr.pc = "failed", !.hr.thrown = "abort"]
  ELSE LET p1 == getPooledClient(s.pool, HrKey) IN
       IF p1.returned.client # 0
       THEN [s EXCEPT !.pool = p1, !.hr.client = p1.returned.client,
                      !.hr.fromPool = TRUE, !.hr.pc = "requesting",
                      !.hr.requests = @ + 1]
       ELSE [s EXCEPT !.pool = p1, !.hr.pc = "connecting", !.hr.connects = @ + 1]

\* The catch block of the first client.request.
catchRequest_NoAbortCheck(s, cause) ==
  IF s.hr.fromPool
  THEN LET s1 == [s EXCEPT !.pool = removePooled(s.pool, HrKey),
                           !.hr.failedOn = s.hr.client,
                           !.hr.abortedAtCatch = s.hr.aborted] IN
       [s1 EXCEPT !.hr.pc = "reconnecting", !.hr.connects = @ + 1]
  ELSE [hrClose(s, s.hr.client) EXCEPT !.hr.pc = "failed", !.hr.thrown = cause]

catchRequest(s, cause) ==
  IF s.hr.fromPool
  THEN LET s1 == [s EXCEPT !.pool = removePooled(s.pool, HrKey),
                           !.hr.failedOn = s.hr.client,
                           !.hr.abortedAtCatch = s.hr.aborted] IN
       IF s.hr.aborted
       THEN [s1 EXCEPT !.hr.pc = "failed", !.hr.thrown = "abort"]
       ELSE [s1 EXCEPT !.hr.pc = "reconnecting", !.hr.connects = @ + 1]
  ELSE [hrClose(s, s.hr.client) EXCEPT !.hr.pc = "failed", !.hr.thrown = cause]

\* The catch block of the retry on the fresh client.
catchRetry(s, cause) ==
  [hrClose(s, FreshClient) EXCEPT !.hr.pc = "failed", !.hr.thrown = cause]

\* abortableConnect settles.
connectSettled(s, ok) ==
  IF ~ok THEN [s EXCEPT !.hr.pc = "failed", !.hr.thrown = "connect"]
  ELSE [s EXCEPT !.hr.client = FreshClient, !.hr.requests = @ + 1,
                 !.hr.pc = IF s.hr.pc = "connecting" THEN "requesting" ELSE "retrying"]

\* The signal aborts (caller cancellation or the request timeout): onAbort /
\* onAbort2 close the client in use; a pending abortableConnect rejects.
onAbort(s) ==
  LET s1 == [s EXCEPT !.hr.aborted = TRUE] IN
  IF s.hr.pc \in {"requesting", "retrying"} THEN hrClose(s1, s.hr.client)
  ELSE IF s.hr.pc \in {"connecting", "reconnecting"}
  THEN [s1 EXCEPT !.hr.pc = "failed", !.hr.thrown = "abort"]
  ELSE s1

(***************************************************************************)
(* The dispatch paths of client.ts for an https target: h2Request,         *)
(* http11Request and autoRequestCompat, from their call to the hand-over   *)
(* to tryWithNat64.                                                        *)
(***************************************************************************)
DispatchPaths == {"auto", "h2", "http1"}
DirectErrors == {"blocked", "other"}

\* isCloudflareNetworkError(err)
isCloudflareNetworkError(err) == err = "blocked"

NewDispatch ==
  [ pc |-> "idle", path |-> "", cached |-> "", isCf |-> FALSE,
    isStreamBody |-> FALSE, idempotent |-> FALSE, aborted |-> FALSE,
    directFailed |-> "", thrown |-> "" ]

dpThrow(s, err) == [s EXCEPT !.dp.pc = "thrown", !.dp.thrown = err]

\* The call of tryWithNat64 the three paths end with.
dpTryWithNat64(s) ==
  [s EXCEPT !.dp.pc = "nat64",
            !.nat = tryWithNat64([NewNat64 EXCEPT
                       !.candidates = NAT64_PREFIX_COUNT,
                       !.isStreamBody = s.dp.isStreamBody,
                       !.isIdempotent = s.dp.idempotent,
                       !.aborted = s.dp.aborted])]

\* "Direct connection blocked": throwIfAborted, then resolveNat64IPv4.
lastResort(s) ==
  IF s.dp.aborted THEN dpThrow(s, "abort") ELSE [s EXCEPT !.dp.pc = "resolve"]

\* h2Request / http11Request up to the direct attempt.
forcedRequest(s) ==
  IF s.dp.aborted THEN dpThrow(s, "abort")
  ELSE IF s.dp.isCf THEN dpTryWithNat64(s)
  ELSE [s EXCEPT !.dp.pc = IF s.dp.path = "h2" THEN "direct:h2" ELSE "direct:h1"]

\* The catch of the direct attempt in h2Request and http11Request.
forcedRequestCatch(s, err) ==
  LET s1 == [s EXCEPT !.dp.directFailed = err] IN
  IF ~isCloudflareNetworkError(err) THEN dpThrow(s1, err)
  ELSE lastResort(s1)

\* autoRequestCompat up to its first attempt.
autoRequestCompat(s) ==
  IF s.dp.isCf THEN dpTryWithNat64(s)
  ELSE [s EXCEPT !.dp.pc = CASE s.dp.cached = "h2" -> "direct:h2"
                             [] s.dp.cached = "http/1.1" -> "direct:h1"
                             [] OTHER -> "wasm"]

\* The catch blocks of autoRequestCompat.
autoRequestCompatCatch(s, err) ==
  LET s1 == [s EXCEPT !.dp.directFailed = err] IN
  IF s.dp.pc = "wasm"
  THEN IF s.dp.aborted \/ s.dp.isStreamBody
       THEN dpThrow([s EXCEPT !.dp.directFailed = ""], err)
       ELSE [s EXCEPT !.dp.pc = "platform"]
  ELSE IF ~isCloudflareNetworkError(err) THEN dpThrow(s1, err)
  ELSE IF s.dp.isStreamBody THEN dpThrow(s1, err)
  ELSE lastResort(s1)

\* resolveNat64IPv4 settles.
resolveSettled(s, ipv4) ==
  IF ~ipv4 THEN dpThrow(s, "dns") ELSE dpTryWithNat64(s)

(***************************************************************************)
(* The HTTP/1.1 response readers: parseResponse of http1/parser.ts (socket *)
(* events) and readResponse / createBodyStream of web/http1/client.ts      *)
(* (socket reads).  The bytes of a response are tokens: "h" is the first   *)
(* part of a head, "C" the end of a 100 Continue head, "F" the end of the  *)
(* final head, "b" one byte of body data, "z" the last-chunk marker of a   *)
(* chunked body.                                                           *)
(***************************************************************************)
MaxContent == 2
MaxRead == 2
H1Impls == {"node", "web"}
BodyModes == {"content-length", "chunked", "close"}

RECURSIVE H1Bytes(_)
H1Bytes(n) == IF n = 0 THEN <<>> ELSE <<"b">> \o H1Bytes(n - 1)

\* What a server sends for a response with a body of n bytes.
H1Wire(continue, partial, mode, n) ==
  (IF continue THEN <<"C">> ELSE <<>>)
  \o (IF partial THEN <<"h">> ELSE <<>>) \o <<"F">>
  \o H1Bytes(n) \o (IF mode = "chunked" THEN <<"z">> ELSE <<>>)

NewH1 ==
  [ impl |-> "node", wire |-> <<>>, pos |-> 0, ended |-> FALSE,
    bodyMode |-> "close", contentLength |-> 0,
    headBuffer |-> <<>>, headParsed |-> FALSE, response |-> "pending",
    bodyBytesReceived |-> 0, decoderDone |-> FALSE, body |-> "none",
    enqueued |-> 0, listening |-> TRUE, hasLeftover |-> FALSE,
    initialData |-> <<>> ]

\* parseResponseHead(buf): the first complete head of buf, if any.
HeadEnd(buf) ==
  IF \E i \in 1..Len(buf) : buf[i] \in {"C", "F"}
  THEN CHOOSE i \in 1..Len(buf) :
         buf[i] \in {"C", "F"} /\ \A j \in 1..(i - 1) : buf[j] \notin {"C", "F"}
  ELSE 0

parseResponseHead(buf) ==
  LET e == HeadEnd(buf) IN
  [found |-> e > 0, bodyStart |-> e,
   status |-> IF e > 0 /\ buf[e] = "C" THEN 100 ELSE 200]

Rest(buf, bodyStart) == SubSeq(buf, bodyStart + 1, Len(buf))

\* ChunkedDecoder.feed(data): the data bytes before the last-chunk marker.
RECURSIVE chunkedData(_)
chunkedData(data) ==
  IF data = <<>> \/ Head(data) = "z" THEN 0 ELSE 1 + chunkedData(Tail(data))

chunkedDone(data) == \E i \in 1..Len(data) : data[i] = "z"

\* closeBody() / cleanup() of parseResponse.
h1CloseBody(s) == IF s.body = "open" THEN [s EXCEPT !.body = "closed"] ELSE s
h1Cleanup(s) == [s EXCEPT !.listening = FALSE]

\* enqueueBody(data) for n bytes.
enqueueBody(s, n) ==
  IF s.body = "open" THEN [s EXCEPT !.enqueued = @ + n] ELSE s

\* processBodyData(data) of parseResponse.
processBodyData(s, data) ==
  IF s.bodyMode = "chunked"
  THEN LET s1 == enqueueBody(s, chunkedData(data)) IN
       IF chunkedDone(data)
       THEN h1Cleanup(h1CloseBody([s1 EXCEPT !.decoderDone = TRUE]))
       ELSE s1
  ELSE IF s.bodyMode = "content-length"
  THEN LET remaining == s.contentLength - s.bodyBytesReceived
           toEnqueue == Min(Len(data), remaining)
           s1 == enqueueBody([s EXCEPT !.bodyBytesReceived = @ + toEnqueue],
                             toEnqueue) IN
       IF s1.bodyBytesReceived >= s1.contentLength
       THEN h1Cleanup(h1CloseBody(s1)) ELSE s1
  ELSE enqueueBody(s, Len(data))

\* onData(chunk) of parseResponse.
onData(s, chunk) ==
  IF ~s.headParsed
  THEN LET buf == s.headBuffer \o chunk
           result == parseResponseHead(buf) IN
       IF ~result.found THEN [s EXCEPT !.headBuffer = buf]
       ELSE IF result.status = 100
       THEN [s EXCEPT !.headBuffer = Rest(buf, result.bodyStart)]
       ELSE LET bodyData == Rest(buf, result.bodyStart)
                s1 == [s EXCEPT !.headParsed = TRUE, !.response = "resolved",
                                !.body = "open", !.headBuffer = <<>>]
                s2 == IF bodyData # <<>> THEN processBodyData(s1, bodyData)
                      ELSE s1 IN
            IF s.bodyMode = "content-length" /\ s.contentLength = 0
            THEN h1Cleanup(h1CloseBody(s2)) ELSE s2
  ELSE processBodyData(s, chunk)

\* onEnd() of parseResponse.
onEnd(s) ==
  IF ~s.headParsed THEN h1Cleanup([s EXCEPT !.response = "rejected"])
  ELSE h1Cleanup(h1CloseBody(s))

\* One pass of the read loop of readResponse, socket.read() having given
\* chunk; createBodyStream when the final head is parsed.
readResponse(s, chunk) ==
  LET buf == s.headBuffer \o chunk
      result == parseResponseHead(buf) IN
  IF ~result.found THEN [s EXCEPT !.headBuffer = buf]
  ELSE IF result.status = 100
  THEN [s EXCEPT !.headBuffer = Rest(buf, result.bodyStart)]
  ELSE LET bodyStartData == Rest(buf, result.bodyStart) IN
       [s EXCEPT !.headParsed = TRUE, !.response = "resolved",
                 !.headBuffer = <<>>,
                 !.initialData = bodyStartData,
                 !.hasLeftover = bodyStartData # <<>>,
                 !.body = IF s.bodyMode = "content-length" /\ s.contentLength = 0
                          THEN "closed" ELSE "open"]

\* socket.read() gives done in the read loop of readResponse.
readResponseDone(s) == [s EXCEPT !.response = "rejected"]

\* pull(controller) of createBodyStream, from the data on.
pullData(s, data) ==
  IF s.bodyMode = "chunked"
  THEN LET s1 == [s EXCEPT !.enqueued = @ + chunkedData(data)] IN
       IF chunkedDone(data) THEN [s1 EXCEPT !.decoderDone = TRUE, !.body = "closed"]
       ELSE s1
  ELSE IF s.bodyMode = "content-length"
  THEN LET remaining == s.contentLength - s.bodyBytesReceived
           toEnqueue == Min(Len(data), remaining)
           s1 == [s EXCEPT !.bodyBytesReceived = @ + toEnqueue,
                           !.enqueued = @ + toEnqueue] IN
       IF s1.bodyBytesReceived >= s1.contentLength
       THEN [s1 EXCEPT !.body = "closed"] ELSE s1
  ELSE [s EXCEPT !.enqueued = @ + Len(data)]

\* pull(controller) of createBodyStream when socket.read() gives done.
h1PullDone(s) ==
  IF s.bodyMode = "close" THEN [s EXCEPT !.body = "closed"]
  ELSE IF s.bodyMode = "chunked" /\ s.decoderDone THEN [s EXCEPT !.body = "closed"]
  ELSE IF s.bodyMode = "content-length" /\ s.bodyBytesReceived >= s.contentLength
  THEN [s EXCEPT !.body = "closed"]
  ELSE [s EXCEPT !.body = "errored"]

(***************************************************************************)
(* The TLS session of createSession: the background pump that reads        *)
(* ciphertext and queues plaintext, and the consumer's read() and close(). *)
(***************************************************************************)
HIGH_WATER == 4
LOW_WATER == 2
MaxPlain == 2

\* pump: where pumpLoop stands: "reading" (await rawSocket.read()),
\* "writing" (await rawSocket.write(out), holding the plaintext taken),
\* "paused" (await of the backpressure promise, pauseResolve set),
\* "released" (the backpressure promise resolved, the loop not yet resumed),
\* "done".
NewTls ==
  [ pump |-> "reading", held |-> 0, plaintextQueue |-> <<>>, queuedBytes |-> 0,
    waiter |-> FALSE, closed |-> FALSE, pumpError |-> FALSE, freed |-> FALSE,
    result |-> "none" ]

\* resolveWaiter(result) / rejectWaiter(err)
resolveWaiter(t, result) ==
  IF t.waiter THEN [t EXCEPT !.waiter = FALSE, !.result = result] ELSE t

rejectWaiter(t) ==
  IF t.waiter THEN [t EXCEPT !.waiter = FALSE, !.result = "rejected"] ELSE t

\* resumePumpIfNeeded()
resumePumpIfNeeded(t) ==
  IF t.pump = "paused" /\ t.queuedBytes < LOW_WATER
  THEN [t EXCEPT !.pump = "released"] ELSE t

\* `while (!_closed)`: the loop goes round.
pumpLoopTest(t) ==
  [t EXCEPT !.pump = IF t.closed THEN "done" ELSE "reading"]

\* pumpLoop from `if (plaintext.length > 0)` on.
pumpPlaintext(t, plaintext) ==
  IF plaintext = 0 THEN pumpLoopTest(t)
  ELSE IF t.waiter THEN pumpLoopTest(resolveWaiter(t, "data"))
  ELSE LET t1 == [t EXCEPT !.plaintextQueue = Append(@, plaintext),
                           !.queuedBytes = @ + plaintext] IN
       IF t1.queuedBytes >= HIGH_WATER THEN [t1 EXCEPT !.pump = "paused"]
       ELSE pumpLoopTest(t1)

\* The catch block of pumpLoop.
pumpCatch(t) ==
  rejectWaiter([t EXCEPT !.closed = TRUE, !.pumpError = TRUE, !.pump = "done",
                         !.held = 0])

\* pumpLoop from the settling of rawSocket.read() with a value on.
pumpLoop(t, plaintext, needsWrite) ==
  IF t.freed THEN pumpCatch(t)
  ELSE IF needsWrite THEN [t EXCEPT !.pump = "writing", !.held = plaintext]
  ELSE pumpPlaintext(t, plaintext)

\* pumpLoop when rawSocket.read() gives done.
pumpLoopDone(t) ==
  resolveWaiter([t EXCEPT !.closed = TRUE, !.pump = "done"], "done")

\* read() of the session.
tlsRead(t) ==
  IF t.pumpError THEN [t EXCEPT !.result = "rejected"]
  ELSE IF t.plaintextQueue # <<>>
  THEN resumePumpIfNeeded(
         [t EXCEPT !.plaintextQueue = Tail(@),
                   !.queuedBytes = @ - Head(t.plaintextQueue),
                   !.result = "data"])
  ELSE IF t.closed THEN [t EXCEPT !.result = "done"]
  ELSE [t EXCEPT !.waiter = TRUE, !.result = "pending"]

\* close() of the session.
tlsClose(t) ==
  IF ~t.closed
  THEN LET t1 == [t EXCEPT !.closed = TRUE]
           t2 == IF t1.pump = "paused" THEN [t1 EXCEPT !.pump = "released"]
                 ELSE t1 IN
       resolveWaiter([t2 EXCEPT !.freed = TRUE], "done")
  ELSE t

(***************************************************************************)
(* State.                                                                  *)
(***************************************************************************)
VARIABLES
  \* --- SpecFC: the window under test and the history of its calls
  fcWin,        \* the FlowControlWindow
  fcInitial,    \* the initialSize it was constructed with
  fcCalls,      \* number of consume() calls made so far (next promise id - 1)
  fcGranted,    \* ids of the consume() calls granted, in grant order
  fcRejected,   \* ids of the consume() calls rejected by cancel()
  fcSumConsume, \* sum of the sizes of the consume() calls that were accepted
  fcSumUpdate,  \* sum of the increments of the update() calls that returned
  fcUpdates,    \* number of update()/reset() calls made so far
  fcResetUsed,  \* reset() has been called
  fcSettingsInitial, \* the INITIAL_WINDOW_SIZE the window is currently sized for
  fcThrew,      \* some update() threw "Flow control window overflow"
  \* --- SpecConn: the connection, its streams, socket and event loop
  h2,
  \* --- SpecReq: one request() call and the responses it has obtained
  rq,
  \* --- SpecBody: one auto-cleanup body stream
  bd,
  \* --- SpecNat64: one tryWithNat64 call and its attempts
  nat,
  \* --- SpecDns: the DNS detector, its cache and its callers
  dns,
  \* --- the connection pool
  cpool,
  \* --- the protocol memo
  memo,
  \* --- SpecRetry: one h2RequestWithConnect call
  hr,
  \* --- SpecDispatch: one dispatched request
  dp,
  \* --- SpecH1: one HTTP/1.1 response being read
  h1,
  \* --- SpecTls: one TLS session
  tls

fcVars == <<fcWin, fcInitial, fcCalls, fcGranted, fcRejected, fcSumConsume,
            fcSumUpdate, fcUpdates, fcResetUsed, fcSettingsInitial, fcThrew>>

connVars == <<h2>>

reqVars == <<rq>>

bodyVars == <<bd>>
nat64Vars == <<nat>>

dnsVars == <<dns>>
poolVars == <<cpool>>
memoVars == <<memo>>
retryVars == <<hr>>
dispatchVars == <<dp>>
h1Vars == <<h1>>
tlsVars == <<tls>>
vars == <<fcVars, connVars, reqVars, bodyVars, nat64Vars, dnsVars, poolVars, memoVars, retryVars, dispatchVars, h1Vars, tlsVars>>

\* What an action of one specification leaves alone.
OutsideFC == <<connVars, reqVars, bodyVars, nat64Vars, dnsVars, poolVars, memoVars, retryVars, dispatchVars, h1Vars, tlsVars>>
OutsideConn == <<fcVars, reqVars, bodyVars, nat64Vars, dnsVars, poolVars, memoVars, retryVars, dispatchVars, h1Vars, tlsVars>>
OutsideReq == <<fcVars, connVars, bodyVars, nat64Vars, dnsVars, poolVars, memoVars, retryVars, dispatchVars, h1Vars, tlsVars>>
OutsideBody == <<fcVars, connVars, reqVars, nat64Vars, dnsVars, poolVars, memoVars, retryVars, dispatchVars, h1Vars, tlsVars>>
OutsideNat64 == <<fcVars, connVars, reqVars, bodyVars, dnsVars, poolVars, memoVars, retryVars, dispatchVars, h1Vars, tlsVars>>
OutsideDns == <<fcVars, connVars, reqVars, bodyVars, nat64Vars, poolVars, memoVars, retryVars, dispatchVars, h1Vars, tlsVars>>
OutsidePool == <<fcVars, connVars, reqVars, bodyVars, nat64Vars, dnsVars, memoVars, retryVars, dispatchVars, h1Vars, tlsVars>>
OutsideMemo == <<fcVars, connVars, reqVars, bodyVars, nat64Vars, dnsVars, poolVars, retryVars, dispatchVars, h1Vars, tlsVars>>
OutsideRetry == <<fcVars, connVars, reqVars, bodyVars, nat64Vars, dnsVars, memoVars, dispatchVars, h1Vars, tlsVars>>
OutsideDispatch == <<fcVars, connVars, reqVars, bodyVars, dnsVars, poolVars, memoVars, retryVars, h1Vars, tlsVars>>
OutsideH1 == <<fcVars, connVars, reqVars, bodyVars, nat64Vars, dnsVars, poolVars, memoVars, retryVars, dispatchVars, tlsVars>>
OutsideTls == <<fcVars, connVars, reqVars, bodyVars, nat64Vars, dnsVars, poolVars, memoVars, retryVars, dispatchVars, h1Vars>>

SeqToSet(s) == {s[i] : i \in 1..Len(s)}

(***************************************************************************)
(* SpecFC: any sequence of consume / update / reset / cancel on one window *)
(***************************************************************************)
FCInit ==
  /\ fcInitial \in 0..MaxWindow
  /\ fcWin = NewWindow(fcInitial)
  /\ fcCalls = 0
  /\ fcGranted = <<>>
  /\ fcRejected = {}
  /\ fcSumConsume = 0
  /\ fcSumUpdate = 0
  /\ fcUpdates = 0
  /\ fcResetUsed = FALSE
  /\ fcSettingsInitial = fcInitial
  /\ fcThrew = FALSE

FcConsume ==
  /\ fcCalls < MaxConsumes
  /\ \E size \in 0..MaxSize :
       LET r == consume(fcWin, fcCalls + 1, size) IN
       /\ fcWin' = r.win
       /\ fcCalls' = fcCalls + 1
       /\ fcGranted' = IF r.res = "granted" THEN Append(fcGranted, fcCalls + 1)
                       ELSE fcGranted
       /\ fcSumConsume' = IF r.res \in {"granted", "wait"}
                          THEN fcSumConsume + size ELSE fcSumConsume
  /\ UNCHANGED <<fcInitial, fcRejected, fcSumUpdate, fcUpdates, fcResetUsed,
                 fcSettingsInitial, fcThrew>>
  /\ UNCHANGED OutsideFC

FcUpdate ==
  /\ fcUpdates < MaxUpdates
  /\ \E increment \in 1..MaxSize :
       LET r == update(fcWin, increment) IN
       /\ fcWin' = r.win
       /\ fcGranted' = fcGranted \o r.granted
       /\ fcThrew' = (fcThrew \/ r.threw)
       /\ fcSumUpdate' = IF r.threw THEN fcSumUpdate ELSE fcSumUpdate + increment
  /\ fcUpdates' = fcUpdates + 1
  /\ UNCHANGED <<fcInitial, fcCalls, fcRejected, fcSumConsume, fcResetUsed,
                 fcSettingsInitial>>
  /\ UNCHANGED OutsideFC

FcReset ==
  /\ fcUpdates < MaxUpdates
  /\ \E newInitialSize \in 0..MaxWindow :
       LET r == reset(fcWin, newInitialSize, fcSettingsInitial) IN
       /\ newInitialSize # fcSettingsInitial
       /\ fcWin' = r.win
       /\ fcGranted' = fcGranted \o r.granted
       /\ fcSettingsInitial' = newInitialSize
  /\ fcUpdates' = fcUpdates + 1
  /\ fcResetUsed' = TRUE
  /\ UNCHANGED <<fcInitial, fcCalls, fcRejected, fcSumConsume, fcSumUpdate, fcThrew>>
  /\ UNCHANGED OutsideFC

FcCancel ==
  /\ ~fcWin.cancelled
  /\ LET r == cancel(fcWin) IN
     /\ fcWin' = r.win
     /\ fcRejected' = fcRejected \cup SeqToSet(r.rejected)
  /\ UNCHANGED <<fcInitial, fcCalls, fcGranted, fcSumConsume, fcSumUpdate,
                 fcUpdates, fcResetUsed, fcSettingsInitial, fcThrew>>
  /\ UNCHANGED OutsideFC

NextFC == FcConsume \/ FcUpdate \/ FcReset \/ FcCancel

InitFC == FCInit /\ h2 = NewConnection /\ rq = NewRequest /\ bd = NewBody
          /\ nat = NewNat64
  /\ dns = NewDns
  /\ cpool = NewPool
  /\ memo = NewMemo
  /\ hr = NewRetry
  /\ dp = NewDispatch
  /\ h1 = NewH1
  /\ tls = NewTls

SpecFC == InitFC /\ [][NextFC]_vars

(***************************************************************************)
(* Claims on the flow-control window.                                      *)
(***************************************************************************)
WaitingIds == {fcWin.waiters[i].id : i \in 1..Len(fcWin.waiters)}

\* C1: grants are FIFO and non-preemptive: a consume issued while an earlier
\* consume is still waiting is never granted before that earlier waiter, so
\* no granted call is younger than a call that is still waiting.
C1_FifoNonPreemptive ==
  \A g \in SeqToSet(fcGranted) : \A q \in WaitingIds : g < q

\* C5: when only consume and update were called, nothing overflowed and every
\* accepted consume has been granted, available = N - sum(k_i) + sum(u_j).
C5_Conservation ==
  (/\ ~fcResetUsed
   /\ ~fcThrew
   /\ fcWin.waiters = <<>>
   /\ fcRejected = {})
  => fcWin.available = fcInitial - fcSumConsume + fcSumUpdate

\* C5 witness: a consume waited, an update granted it, and the books balance.
C5_Witness ==
  /\ ~fcResetUsed /\ ~fcThrew /\ fcRejected = {}
  /\ fcWin.waiters = <<>>
  /\ fcSumUpdate > 0
  /\ Len(fcGranted) >= 2
  /\ fcSumConsume > fcInitial

\* C6: available never exceeds the protocol limit in any reachable state.
C6_NeverAboveLimit == fcWin.available <= MaxWindow

(***************************************************************************)
(* SpecConn: one Http2Connection, its requests and its peer.               *)
(*                                                                         *)
(* Event loop: a macrotask (socket data, socket write callback, timer,     *)
(* application job) starts only when the microtask queue is empty;         *)
(* microtasks run in FIFO order.  FrameParser.process hands the frames of  *)
(* one chunk to handleFrame synchronously, before any microtask the        *)
(* earlier frames of the chunk have queued: h2.feeding says that the last  *)
(* step was a frame whose microtasks have not run yet, so that a frame     *)
(* taken now belongs to the same chunk.                                    *)
(***************************************************************************)
InFrame(type, sid, shape, endStream, endHeaders, ack, val, code, block, set) ==
  [type |-> type, sid |-> sid, shape |-> shape, endStream |-> endStream,
   endHeaders |-> endHeaders, ack |-> ack, val |-> val, code |-> code,
   block |-> block, set |-> set]

Plain(type, sid, shape) ==
  InFrame(type, sid, shape, FALSE, FALSE, FALSE, 0, "", <<>>, <<>>)

Setting(id, value) == [id |-> id, value |-> value]

\* The two frames of the peer's half of the handshake.
PeerSettings == Plain("SETTINGS", 0, "ok")
PeerSettingsAck == [Plain("SETTINGS", 0, "ok") EXCEPT !.ack = TRUE]

\* Frames the peer may send: for every frame type, one frame per branch of
\* its handler.  Frames that name a stream are sent for streams the client
\* has created.
DataFrames ==
  {[Plain("DATA", s, "ok") EXCEPT !.val = 1, !.endStream = e] :
      s \in StreamIds, e \in BOOLEAN}
HeadersFrames ==
  {[Plain("HEADERS", s, "ok") EXCEPT !.endHeaders = TRUE, !.block = b] :
      s \in StreamIds, b \in {<<"fld">>, <<"fld", "upd">>}}
  \cup {[Plain("HEADERS", s, "ok") EXCEPT !.block = <<"fld">>, !.endStream = TRUE] :
      s \in StreamIds}
ContinuationFrames ==
  {[Plain("CONTINUATION", s, "ok") EXCEPT !.endHeaders = TRUE, !.block = <<"fld">>] :
      s \in StreamIds}
SettingsFrames ==
  {PeerSettings, PeerSettingsAck}
  \cup {[Plain("SETTINGS", 0, "ok") EXCEPT !.set = <<e>>] :
          e \in {Setting("INITIAL_WINDOW_SIZE", 0),
                 Setting("INITIAL_WINDOW_SIZE", MaxWindow + 1),
                 Setting("MAX_FRAME_SIZE", DEFAULT_MAX_FRAME_SIZE + 1)}}
WindowUpdateFrames ==
  {[Plain("WINDOW_UPDATE", s, "ok") EXCEPT !.val = n] :
      s \in {0} \cup StreamIds, n \in {0, 1}}
PingFrames == {Plain("PING", 0, "ok"), Plain("PING", 0, "bad")}
GoawayFrames ==
  {[Plain("GOAWAY", 0, "ok") EXCEPT !.val = l] : l \in {0} \cup StreamIds}
RstStreamFrames ==
  {[Plain("RST_STREAM", s, "ok") EXCEPT !.code = "CANCEL"] : s \in StreamIds}
OtherFrames == {Plain("PUSH_PROMISE", MinOf(StreamIds), "ok")}

InFrames == DataFrames \cup HeadersFrames \cup ContinuationFrames \cup SettingsFrames
            \cup WindowUpdateFrames \cup PingFrames \cup GoawayFrames
            \cup RstStreamFrames \cup OtherFrames

\* A macrotask starts: the loop turns.
AtTurn(c) == c.microtasks = <<>>
newTurn(c) == [c EXCEPT !.turnOpen = FALSE, !.feeding = FALSE]
\* Application code runs as a job of its own (a macrotask) and may make
\* several calls in that job.
AppJob(c) == c.appJob \/ c.microtasks = <<>>
appTurn(c) == IF c.appJob THEN c ELSE [newTurn(c) EXCEPT !.appJob = TRUE]
notApp(c) == [c EXCEPT !.appJob = FALSE]

\* The environment has MaxEvents stimuli to spend after initialize(): calls
\* of the application, frames of the peer beyond its half of the handshake,
\* timer expiries and the loss of the socket.
CanSpend(c) == c.events < MaxEvents
spend(c) == [c EXCEPT !.events = @ + 1]

\* The handshake frames are free the first time.
IsHandshake(c, f) ==
  \/ f = PeerSettings /\ ~c.hsSettings
  \/ f = PeerSettingsAck /\ ~c.hsAck

\* The parser has handed over a frame: the chunk may go on until the
\* microtasks run.
fed(c) == [c EXCEPT !.feeding = (c.microtasks # <<>>)]

FCIdle ==
  /\ fcInitial = 0
  /\ fcWin = NewWindow(0)
  /\ fcCalls = 0
  /\ fcGranted = <<>>
  /\ fcRejected = {}
  /\ fcSumConsume = 0
  /\ fcSumUpdate = 0
  /\ fcUpdates = 0
  /\ fcResetUsed = FALSE
  /\ fcSettingsInitial = 0
  /\ fcThrew = FALSE

ConnInit == h2 = NewConnection

\* initialize()/startInitialize(): the preface is queued with writeRaw.
StartInitialize ==
  /\ AppJob(h2)
  /\ h2.task[InitTask].pc = "idle"
  /\ h2' = writeRaw(setPc(appTurn(h2), InitTask, "init:preface"),
                    CONNECTION_PREFACE, InitTask)
  /\ UNCHANGED OutsideConn

\* Http2Client.request(): createStream, then sendHeaders up to its first await.
StartRequest(t) ==
  /\ AppJob(h2)
  /\ h2.task[InitTask].pc = "done"
  /\ h2.task[t].pc = "idle"
  /\ \A u \in Requests : u < t => h2.task[u].pc # "idle"
  /\ CanSpend(h2)
  /\ \E hdr \in 1..MaxHeaderBlock, body \in 0..MaxBody :
       LET r == createStream(spend(appTurn(h2))) IN
       IF r.sid = 0
       THEN h2' = setPc(r.c, t, "failed")
       ELSE h2' = waitForReady(
                    [r.c EXCEPT !.task[t] = [pc |-> "sendHeaders:ready", sid |-> r.sid,
                                             hdr |-> hdr, body |-> body,
                                             endStream |-> (body = 0),
                                             viaReady |-> FALSE]], t)
  /\ UNCHANGED OutsideConn

\* The timer of a waitForReady() expires.
SettingsTimeout(t) ==
  /\ AtTurn(h2)
  /\ \E i \in 1..Len(h2.readyWaiters) : h2.readyWaiters[i] = t
  /\ CanSpend(h2)
  /\ h2' = settle([spend(newTurn(notApp(h2))) EXCEPT
                      !.readyWaiters = SelectSeq(@, LAMBDA u : u # t)],
                  <<t>>, FALSE)
  /\ UNCHANGED OutsideConn

\* close(): closed is set and GOAWAY(NO_ERROR) queued; the rest follows the
\* write.
Close ==
  /\ AppJob(h2)
  /\ h2.task[InitTask].pc = "done"
  /\ h2.task[CloseTask].pc = "idle"
  /\ ~h2.closed
  /\ CanSpend(h2)
  /\ h2' = writeRaw([setPc(spend(appTurn(h2)), CloseTask, "close:goaway")
                        EXCEPT !.closed = TRUE],
                    encodeGoaway(h2.nextStreamId - 2, "NO_ERROR"), CloseTask)
  /\ UNCHANGED OutsideConn

\* The consumer cancels a response body: the stream's cancel() callback and
\* the connection's onBodyCancel callback.
BodyCancel(sid) ==
  /\ AppJob(h2)
  /\ h2.stream[sid].response = "resolved"
  /\ h2.stream[sid].body = "open"
  /\ CanSpend(h2)
  /\ LET c0 == [spend(appTurn(h2)) EXCEPT !.stream[sid].bodyStreamClosed = TRUE,
                                   !.stream[sid].body = "cancelled"] IN
     h2' = IF c0.stream[sid].state # "closed" /\ sid \in c0.streams /\ ~c0.closed
           THEN handleRstStream(writeRaw(c0, encodeRstStream(sid, "CANCEL"), NoTask),
                                sid, "CANCEL")
           ELSE c0
  /\ UNCHANGED OutsideConn

\* socket "data": FrameParser.feed/process delivers one frame to handleFrame.
SocketData(f) ==
  /\ h2.feeding \/ AtTurn(h2)
  /\ h2.task[InitTask].pc # "idle"
  /\ ~h2.parserErrored /\ ~h2.socketClosed
  /\ IsHandshake(h2, f) \/ CanSpend(h2)
  /\ f.sid < h2.nextStreamId
  /\ LET c0 == IF h2.feeding THEN h2 ELSE newTurn(notApp(h2))
         c1 == [c0 EXCEPT !.events = IF IsHandshake(h2, f) THEN @ ELSE @ + 1,
                          !.received = @ + 1,
                          !.hsSettings = @ \/ f = PeerSettings,
                          !.hsAck = @ \/ f = PeerSettingsAck] IN
     h2' = fed(handleFrame(c1, f))
  /\ UNCHANGED OutsideConn

\* socket "data" with a frame header longer than the advertised maximum: the
\* parser emits "error" and stops for good.
SocketDataOversize ==
  /\ h2.feeding \/ AtTurn(h2)
  /\ h2.task[InitTask].pc # "idle"
  /\ ~h2.parserErrored /\ ~h2.socketClosed
  /\ CanSpend(h2)
  /\ LET c0 == IF h2.feeding THEN h2 ELSE newTurn(notApp(h2)) IN
     h2' = handleError([spend(c0) EXCEPT !.feeding = FALSE, !.parserErrored = TRUE],
                       TRUE)
  /\ UNCHANGED OutsideConn

\* socket "close"
SocketClose ==
  /\ AtTurn(h2)
  /\ ~h2.socketClosed
  /\ h2.task[InitTask].pc = "done"
  /\ CanSpend(h2)
  /\ h2' = handleSocketClose([spend(newTurn(notApp(h2))) EXCEPT !.socketClosed = TRUE])
  /\ UNCHANGED OutsideConn

\* The callback of the oldest outstanding socket.write().
SocketWriteDone ==
  /\ AtTurn(h2)
  /\ h2.writeCallbacks # <<>>
  /\ h2' = settle([newTurn(notApp(h2)) EXCEPT !.writeCallbacks = Tail(@)],
                  Head(h2.writeCallbacks).resolvers, Head(h2.writeCallbacks).ok)
  /\ UNCHANGED OutsideConn

\* The microtask at the head of the queue runs.
RunFlush ==
  /\ h2.microtasks # <<>>
  /\ Head(h2.microtasks).kind = "flush"
  /\ h2' = flush([h2 EXCEPT !.microtasks = Tail(@), !.appJob = FALSE,
                                     !.feeding = FALSE])
  /\ UNCHANGED OutsideConn

RunDecode ==
  /\ h2.microtasks # <<>>
  /\ Head(h2.microtasks).kind = "decode"
  /\ LET j == Head(h2.microtasks) IN
     h2' = processHeaderBlockDecoded([h2 EXCEPT !.microtasks = Tail(@), !.appJob = FALSE,
                                     !.feeding = FALSE],
                                     j.sid, j.block, j.endStream)
  /\ UNCHANGED OutsideConn

RunResume ==
  /\ h2.microtasks # <<>>
  /\ Head(h2.microtasks).kind = "resume"
  /\ LET j == Head(h2.microtasks) IN
     h2' = resumeTask([h2 EXCEPT !.microtasks = Tail(@), !.appJob = FALSE,
                                     !.feeding = FALSE], j.task, j.ok)
  /\ UNCHANGED OutsideConn

ConnStep ==
  \/ StartInitialize
  \/ \E t \in Requests : StartRequest(t)
  \/ \E t \in Requests : SettingsTimeout(t)
  \/ Close
  \/ \E sid \in StreamIds : BodyCancel(sid)
  \/ \E f \in InFrames : SocketData(f)
  \/ SocketDataOversize
  \/ SocketClose
  \/ SocketWriteDone
  \/ RunFlush
  \/ RunDecode
  \/ RunResume

InitConn == ConnInit /\ FCIdle /\ rq = NewRequest /\ bd = NewBody
            /\ nat = NewNat64
  /\ dns = NewDns
  /\ cpool = NewPool
  /\ memo = NewMemo
  /\ hr = NewRetry
  /\ dp = NewDispatch
  /\ h1 = NewH1
  /\ tls = NewTls

NextConn == ConnStep

SpecConn == InitConn /\ [][NextConn]_vars


(***************************************************************************)
(* Claims on the connection.                                               *)
(***************************************************************************)
RECURSIVE Flat(_)
Flat(writes) == IF writes = <<>> THEN <<>> ELSE Head(writes) \o Flat(Tail(writes))

\* The frames handed to socket.write(), in the order of the socket's byte
\* stream.
Wire == Flat(h2.socketWrites)

\* A GOAWAY with the error code has been handed to socket.write().
GoawayWritten(code) ==
  \E i \in 1..Len(Wire) : Wire[i].type = "GOAWAY" /\ Wire[i].code = code

\* A GOAWAY with the error code has been submitted.
GoawaySubmitted(code) ==
  \/ GoawayWritten(code)
  \/ \E k \in 1..Len(h2.pendingWrites) :
        h2.pendingWrites[k].type = "GOAWAY" /\ h2.pendingWrites[k].code = code

\* C2: the frames of one stream reach the socket in the order in which they
\* were submitted, whichever of writeRaw and writeMulti took them.
C2_StreamOrder ==
  \A i, j \in 1..Len(Wire) :
     (i < j /\ Wire[i].sid # 0 /\ Wire[i].sid = Wire[j].sid)
        => Wire[i].seq < Wire[j].seq

\* C3 as stated: the frames submitted within one turn of the loop are issued
\* in exactly one socket write, and once nothing is pending the number of
\* socket writes is the number of turns in which frames were submitted.
C3_OneWritePerTurn ==
  /\ \A i, j \in 1..Len(h2.socketWrites) :
        \A a \in SeqToSet(h2.socketWrites[i]), b \in SeqToSet(h2.socketWrites[j]) :
           a.turn = b.turn => i = j
  /\ h2.pendingWrites = <<>> => Len(h2.socketWrites) = h2.turn

\* C3 as amended: the frames queued by writeRaw in one coalescing window (from
\* one run of flush to the next) are issued in exactly one socket write, a
\* writeMulti call is one socket write of its own, and the number of socket
\* writes is the number of windows flushed plus the number of writeMulti calls.
C3_OneWritePerWindow ==
  /\ \A i, j \in 1..Len(h2.socketWrites) :
        \A a \in SeqToSet(h2.socketWrites[i]), b \in SeqToSet(h2.socketWrites[j]) :
           (a.win # 0 /\ a.win = b.win) => i = j
  /\ \A i \in 1..Len(h2.socketWrites) :
        \A a, b \in SeqToSet(h2.socketWrites[i]) : (a.win = 0) = (b.win = 0)
  /\ \A k \in 1..Len(h2.pendingWrites) : h2.pendingWrites[k].win = h2.flushes + 1
  /\ \A i \in 1..Len(Wire) : Wire[i].win <= h2.flushes
  /\ Len(h2.socketWrites) = h2.flushes + h2.multiWrites

\* C3 witness: in one turn, a window of two queued frames went out as one
\* write and a writeMulti call went out as another.
C3_Witness ==
  \E i, j \in 1..Len(h2.socketWrites) :
     /\ Len(h2.socketWrites[i]) >= 2
     /\ h2.socketWrites[i][1].win # 0
     /\ h2.socketWrites[j][1].win = 0
     /\ h2.socketWrites[j][1].turn = h2.socketWrites[i][1].turn

\* C4: a HEADERS frame without END_HEADERS, and every CONTINUATION frame
\* without END_HEADERS, is followed on the socket by a CONTINUATION frame of
\* the same stream, and a CONTINUATION frame only ever follows such a frame.
C4_HeadersContiguous ==
  /\ \A p \in 1..Len(Wire) :
        (Wire[p].type \in {"HEADERS", "CONTINUATION"} /\ ~Wire[p].endHeaders)
           => /\ p < Len(Wire)
              /\ Wire[p + 1].type = "CONTINUATION"
              /\ Wire[p + 1].sid = Wire[p].sid
  /\ \A p \in 1..Len(Wire) :
        Wire[p].type = "CONTINUATION"
           => /\ p > 1
              /\ Wire[p - 1].type \in {"HEADERS", "CONTINUATION"}
              /\ ~Wire[p - 1].endHeaders
              /\ Wire[p - 1].sid = Wire[p].sid

\* C4 witness: a split header block is on the socket, and a frame of another
\* stream or of the connection that was submitted before it was written
\* after it.
C4_Witness ==
  \E p, q \in 1..Len(Wire) :
     /\ Wire[p].type = "HEADERS" /\ ~Wire[p].endHeaders
     /\ q > p
     /\ Wire[q].sid # Wire[p].sid
     /\ Wire[q].seq < Wire[p].seq

\* C7: once a protocol error has been detected the connection is closed, has
\* ended its socket, has no stream left, and has submitted a GOAWAY with the
\* code of a detected error.
C7_ProtocolErrorCloses ==
  h2.detected # {}
     => /\ h2.closed
        /\ h2.socketEnded
        /\ h2.streams = {}
        /\ \E code \in h2.detected : GoawaySubmitted(code)

\* The connection without the bookkeeping of the event loop and of the
\* environment.
Core(c) ==
  [c EXCEPT !.events = 0, !.received = 0, !.hsSettings = FALSE, !.hsAck = FALSE,
            !.turnOpen = FALSE, !.feeding = FALSE, !.appJob = FALSE]

\* C8: after sendGoawayAndClose has run for a fatal error, a step that
\* receives a frame changes neither the connection nor a stream and queues
\* no outbound frame.
C8_NoFrameAfterFatal ==
  [][(h2.fatal # "" /\ h2'.received # h2.received) => Core(h2') = Core(h2)]_vars

\* C9: a stream refused by a GOAWAY stays closed and out of the streams map.
C9_RefusedStaysClosed ==
  \A s \in h2.refused : h2.stream[s].state = "closed" /\ s \notin h2.streams


(***************************************************************************)
(* SpecReq: one request() call of the dispatcher, the transport under it   *)
(* and the caller that consumes the response it returns.                   *)
(***************************************************************************)
ReqInit == rq = NewRequest

\* The response the dispatcher is holding or has handed over last.
Last == Len(rq.responses)

\* The application calls request(url, options).
Request ==
  /\ rq.pc = "idle"
  /\ \E url \in Urls, method \in Methods, body \in Bodies, follow \in BOOLEAN,
        maxRedirects \in 0..MaxRedirects, retry \in RetryOptions,
        aborted \in BOOLEAN, headers \in HeaderInputs :
       rq' = request([rq EXCEPT !.url = url, !.method = method, !.body = body,
                                !.headers = headers,
                                !.follow = follow, !.maxRedirects = maxRedirects,
                                !.retryLimit = normalizeRetry(retry),
                                !.userAborted = aborted])
  /\ UNCHANGED OutsideReq

\* The transport resolves with a response.  It may do so after the signal
\* has fired: autoRequestWithSocket registers its abort listener only after
\* `await connection.startInitialize()`, so an abort during that await is
\* never seen by the exchange that follows.
TransportResponse ==
  /\ rq.pc = "transport"
  /\ \E status \in Statuses :
       \E location \in (IF status \in {302, 307} THEN Locations ELSE {""}) :
         rq' = afterResponse(
                 [rq EXCEPT !.responses = Append(@, wrapResponse(status, location))],
                 Last + 1)
  /\ UNCHANGED OutsideReq

\* The transport rejects.
TransportError ==
  /\ rq.pc = "transport"
  /\ rq' = doRequestThrew(rq, "NetworkError")
  /\ UNCHANGED OutsideReq

\* consumeAndDiscard reads the body to its end.
DiscardDone ==
  /\ rq.pc \in {"discardRedirect", "discardRetry"}
  /\ LET q == [rq EXCEPT !.responses[Last] = pullDone(@)] IN
     rq' = IF rq.pc = "discardRedirect" THEN afterDiscard(q, Last)
           ELSE sleepAfterStatus(q)
  /\ UNCHANGED OutsideReq

\* consumeAndDiscard fails: a read of the body throws.
DiscardError ==
  /\ rq.pc \in {"discardRedirect", "discardRetry"}
  /\ rq' = doRequestThrew([rq EXCEPT !.responses[Last] = pullError(@)], "BodyError")
  /\ UNCHANGED OutsideReq

\* The backoff timer fires: the retry loop goes on with the next attempt.
SleepDone ==
  /\ rq.pc \in {"sleepStatus", "sleepError"}
  /\ rq' = doRequest([rq EXCEPT !.attempt = @ + 1])
  /\ UNCHANGED OutsideReq

\* The caller's signal fires while request() is pending; a pending sleep
\* rejects.
UserAbort ==
  /\ rq.pc \notin {"idle", "returned", "rejected"}
  /\ ~rq.userAborted
  /\ LET q == [rq EXCEPT !.userAborted = TRUE] IN
     rq' = CASE rq.pc = "sleepStatus" -> doRequestThrew(q, "AbortError")
             [] rq.pc = "sleepError" -> requestRejects(q, "AbortError")
             [] OTHER -> q
  /\ UNCHANGED OutsideReq

\* The overall timeout elapses while request() is pending.
Timeout ==
  /\ rq.timer
  /\ ~rq.timedOut
  /\ LET q == [rq EXCEPT !.timedOut = TRUE, !.timer = FALSE] IN
     rq' = CASE rq.pc = "sleepStatus" -> doRequestThrew(q, "TimeoutError")
             [] rq.pc = "sleepError" -> requestRejects(q, "TimeoutError")
             [] OTHER -> q
  /\ UNCHANGED OutsideReq

\* The caller reads the returned response's body to its end.
CallerReadsToEnd ==
  /\ rq.pc = "returned"
  /\ rq.responses[rq.returned].body = "open"
  /\ rq' = [rq EXCEPT !.responses[rq.returned] = pullDone(@)]
  /\ UNCHANGED OutsideReq

\* A read of the returned response's body fails.
CallerReadFails ==
  /\ rq.pc = "returned"
  /\ rq.responses[rq.returned].body = "open"
  /\ rq' = [rq EXCEPT !.responses[rq.returned] = pullError(@)]
  /\ UNCHANGED OutsideReq

\* The caller cancels the returned response's body.
CallerCancels ==
  /\ rq.pc = "returned"
  /\ rq.responses[rq.returned].body = "open"
  /\ rq' = [rq EXCEPT !.responses[rq.returned] = cancelBody(@)]
  /\ UNCHANGED OutsideReq

NextReq ==
  \/ Request
  \/ TransportResponse
  \/ TransportError
  \/ DiscardDone
  \/ DiscardError
  \/ SleepDone
  \/ UserAbort
  \/ Timeout
  \/ CallerReadsToEnd
  \/ CallerReadFails
  \/ CallerCancels

InitReq == ReqInit /\ FCIdle /\ ConnInit /\ bd = NewBody /\ nat = NewNat64
  /\ dns = NewDns
  /\ cpool = NewPool
  /\ memo = NewMemo
  /\ hr = NewRetry
  /\ dp = NewDispatch
  /\ h1 = NewH1
  /\ tls = NewTls

SpecReq == InitReq /\ [][NextReq]_vars

(***************************************************************************)
(* Claims on the dispatcher.                                               *)
(***************************************************************************)
\* Response i has had its socket or HTTP/2 client released.
Released(i) == rq.responses[i].cleanups > 0

\* C10: every response the dispatcher obtains during a request() call is
\* released on every exit path.  A response may be unreleased only while the
\* dispatcher is still draining it, or while it is the response request()
\* returned and the caller has not yet read its body to the end, cancelled it
\* or seen it fail; in particular once request() has rejected, every response
\* it had obtained is released.
C10_EveryResponseReleased ==
  \A i \in 1..Len(rq.responses) :
    \/ Released(i)
    \/ rq.pc \in {"discardRedirect", "discardRetry"} /\ i = Last
    \/ rq.pc = "returned" /\ i = rq.returned /\ rq.responses[i].body = "open"


\* request() has settled.
Settled == rq.pc \in {"returned", "rejected"}

\* C12: if the overall timeout elapses before request() has produced its
\* response, request() rejects with the timeout error: it does not resolve
\* with a response and does not carry the caller's cancellation reason.
C12_TimeoutRejects ==
  (rq.timedOut /\ Settled) => (rq.pc = "rejected" /\ rq.error = "TimeoutError")

\* A step hands a further URL to the transport.
Dispatches == Len(rq'.requested) > Len(rq.requested)

\* C13: once the caller's cancellation signal has fired, request() starts no
\* further dispatch attempt and, when it settles, rejects carrying the
\* caller's reason.
C13_CancelStopsAndRejects ==
  /\ [][rq.userAborted => ~Dispatches]_vars
  /\ []((rq.userAborted /\ Settled) => (rq.pc = "rejected" /\ rq.error = "AbortError"))

\* The call may retry: its method is in the allowed set and its body is not
\* a stream.
RetryAllowed == rq.method \in DEFAULT_RETRY_METHODS /\ rq.body # "stream"

\* C14: a retry is attempted only when the method is in the allowed set, the
\* body is not a stream and the attempt count is below the limit: one
\* request() makes at most limit+1 dispatch attempts, and exactly one when
\* the method is not allowed or the body is a stream.
C14_RetryBound ==
  /\ rq.attempts <= rq.retryLimit + 1
  /\ ~RetryAllowed => (rq.attempts <= 1 /\ (rq.requested # <<>> => rq.attempts = 1))

\* C14 witness: an allowed call has used up its limit of retries.
C14_Witness ==
  /\ RetryAllowed
  /\ rq.retryLimit >= 1
  /\ rq.attempts = rq.retryLimit + 1
  /\ Settled

(***************************************************************************)
(* SpecChain: one doRequest call followed through its redirect chain.  The *)
(* call has no retry configuration, no timeout and a signal that never     *)
(* fires, so that chains of MaxHops redirects are explored in full.        *)
(***************************************************************************)
RequestNoRetry ==
  /\ rq.pc = "idle"
  /\ \E url \in Urls, method \in Methods, body \in Bodies \ {"locked"},
        maxRedirects \in 0..MaxHops, headers \in HeaderInputs :
       rq' = request([rq EXCEPT !.url = url, !.method = method, !.body = body,
                                !.headers = headers,
                                !.follow = TRUE, !.maxRedirects = maxRedirects,
                                !.retryLimit = 0, !.userAborted = FALSE])
  /\ UNCHANGED OutsideReq

NextChain ==
  \/ RequestNoRetry
  \/ TransportResponse
  \/ TransportError
  \/ DiscardDone
  \/ DiscardError

SpecChain == InitReq /\ [][NextChain]_vars

\* The origin of a URL: scheme, host and port.
Origin(url) == <<protocolOf(url), hostnameOf(url), portOf(url)>>

\* Request j of the current chain carries a credential header, in whatever
\* casing.
CarriesCredentials(j) ==
  \E name \in rq.chain[j].headers : toLowerCase(name) \in SensitiveHeaders

\* C19: once a hop of a redirect chain has crossed origins, no later request
\* of the chain (the final one included) carries authorization, cookie or
\* proxy-authorization, whatever the casing the caller used and even if a
\* later hop returns to the original origin.
C19_NoCredentialsAfterCrossing ==
  \A i \in 1..(Len(rq.chain) - 1) :
    Origin(rq.chain[i].url) # Origin(rq.chain[i + 1].url)
      => \A j \in (i + 1)..Len(rq.chain) : ~CarriesCredentials(j)

\* C19 witness: the caller gave Authorization, the first hop left the
\* origin, the second came back to it, and the third request is out.
C19_Witness ==
  /\ "Authorization" \in rq.headers
  /\ Len(rq.chain) = 3
  /\ CarriesCredentials(1)
  /\ Origin(rq.chain[2].url) # Origin(rq.chain[1].url)
  /\ Origin(rq.chain[3].url) = Origin(rq.chain[1].url)
  /\ rq.chain[3].url # rq.chain[1].url

\* C20: within one redirect chain no URL is requested twice, the original
\* request URL included: a redirect to a URL already requested ends the
\* chain before a request to it is issued.
C20_NoUrlTwice ==
  \A i, j \in 1..Len(rq.chain) :
    i < j => rq.chain[i].url # rq.chain[j].url

(***************************************************************************)
(* SpecBody: the body stream of one response, as wrapped by                *)
(* createAutoCleanupStream, between its source stream and its consumer.    *)
(* The stream calls pull() whenever it is readable, no pull() is in        *)
(* progress and fewer than HighWaterMark chunks are queued; cancel() of a  *)
(* readable stream closes it and calls the underlying cancel().            *)
(***************************************************************************)
BodyInit == \E h \in Holdings : bd = [NewBody EXCEPT !.r = holding(@, h)]

note(b, event) == [b EXCEPT !.log = Append(@, event)]

\* The stream calls pull(controller): the call suspends at reader.read().
BodyPull ==
  /\ bd.r.body = "open"
  /\ ~bd.pulling
  /\ bd.queued < HighWaterMark
  /\ bd' = note([bd EXCEPT !.pulling = TRUE], "pull")
  /\ UNCHANGED OutsideBody

\* The source delivers a chunk to the suspended pull().
SourceChunk ==
  /\ bd.pulling
  /\ bd.chunks < MaxChunks
  /\ bd' = note([bd EXCEPT !.pulling = FALSE,
                           !.chunks = @ + 1,
                           !.queued = IF bd.r.body = "open" THEN @ + 1 ELSE @,
                           !.asked = IF bd.r.body = "open" THEN @ ELSE @ + 1,
                           !.r = pull(@, "value")], "value")
  /\ UNCHANGED OutsideBody

\* The source reports done to the suspended pull(): end of stream, or the
\* answer to reader.cancel().
SourceDone ==
  /\ bd.pulling
  /\ bd' = note([bd EXCEPT !.pulling = FALSE, !.asked = @ + 1,
                           !.r = pull(@, "done")], "done")
  /\ UNCHANGED OutsideBody

\* The read of the suspended pull() rejects.
SourceError ==
  /\ bd.pulling
  /\ bd' = note([bd EXCEPT !.pulling = FALSE, !.asked = @ + 1, !.queued = 0,
                           !.r = pull(@, "error")], "error")
  /\ UNCHANGED OutsideBody

\* The consumer reads a queued chunk.
ConsumerRead ==
  /\ bd.r.body = "open"
  /\ bd.queued > 0
  /\ bd' = note([bd EXCEPT !.queued = @ - 1], "read")
  /\ UNCHANGED OutsideBody

\* The consumer cancels the stream while it is readable.
ConsumerCancel ==
  /\ bd.r.body = "open"
  /\ bd' = note([bd EXCEPT !.queued = 0, !.asked = @ + 1,
                           !.r = cancelBody(@)], "cancel")
  /\ UNCHANGED OutsideBody

NextBody ==
  \/ BodyPull
  \/ SourceChunk
  \/ SourceDone
  \/ SourceError
  \/ ConsumerRead
  \/ ConsumerCancel

InitBody == BodyInit /\ FCIdle /\ ConnInit /\ ReqInit /\ nat = NewNat64
  /\ dns = NewDns
  /\ cpool = NewPool
  /\ memo = NewMemo
  /\ hr = NewRetry
  /\ dp = NewDispatch
  /\ h1 = NewH1
  /\ tls = NewTls

\* The resource a response holds has been released.
Let_go(r) == r.h2Client # "held" /\ r.socket # "held"

SpecBody == InitBody /\ [][NextBody]_vars

(***************************************************************************)
(* Claims on the body stream.                                              *)
(***************************************************************************)
\* The body has reached end-of-stream, was cancelled or has errored.
BodyEnded == \E i \in 1..Len(bd.log) : bd.log[i] \in {"done", "error", "cancel"}

\* C11: for every response the cleanup action runs exactly once when the body
\* reaches end-of-stream, is cancelled by the consumer or errors: never twice
\* under any combination or ordering of those events, and never zero times
\* after one of them has happened.
C11_CleanupExactlyOnce ==
  /\ bd.r.cleanups <= 1
  /\ BodyEnded => (bd.r.cleanups = 1 /\ Let_go(bd.r))

\* C11 witness: the consumer cancelled while a pull() was suspended and the
\* pull() then ended, so doCleanup() was called twice and cleanup ran once.
C11_Witness ==
  /\ bd.asked >= 2
  /\ bd.r.cleanups = 1
  /\ \E i, j \in 1..Len(bd.log) : i < j /\ bd.log[i] = "cancel" /\ bd.log[j] = "done"

(***************************************************************************)
(* SpecNat64: one tryWithNat64 call, its attempts, the hedge delay, the    *)
(* per-prefix timeouts and the caller's signal.                            *)
(***************************************************************************)
Nat64Init == nat = NewNat64

\* A transport calls tryWithNat64 with its candidates.
Nat64Call ==
  /\ nat.pc = "idle"
  /\ \E n \in 1..NAT64_PREFIX_COUNT, isStreamBody, isIdempotent \in BOOLEAN :
       nat' = tryWithNat64([nat EXCEPT !.candidates = n,
                                       !.isStreamBody = isStreamBody,
                                       !.isIdempotent = isIdempotent])
  /\ UNCHANGED OutsideNat64

\* The socket of attempt i is connected and has negotiated its protocol.
Nat64Connected(i) ==
  /\ nat.attempt[i].phase = "connecting"
  /\ \E alpn \in {"h2", "http/1.1"} :
       nat' = [nat EXCEPT !.attempt[i].alpn = alpn,
                          !.attempt[i].phase =
                            IF alpn = "h2" THEN "initializing" ELSE "exchange"]
  /\ UNCHANGED OutsideNat64

\* Connecting fails.
Nat64ConnectFails(i) ==
  /\ nat.attempt[i].phase = "connecting"
  /\ nat' = resume(attemptSettles(nat, i, FALSE, "error"), i)
  /\ UNCHANGED OutsideNat64

\* connection.startInitialize() resolves; the abort listener is registered.
Nat64Initialized(i) ==
  /\ nat.attempt[i].phase = "initializing"
  /\ nat' = [nat EXCEPT !.attempt[i].phase = "exchange"]
  /\ UNCHANGED OutsideNat64

\* connection.startInitialize() rejects.
Nat64InitFails(i) ==
  /\ nat.attempt[i].phase = "initializing"
  /\ nat' = resume(attemptSettles(nat, i, FALSE, "error"), i)
  /\ UNCHANGED OutsideNat64

\* The request of attempt i, body included, is written to the server.
Nat64RequestSent(i) ==
  /\ nat.attempt[i].phase = "exchange"
  /\ ~nat.attempt[i].sent
  /\ nat' = [nat EXCEPT !.attempt[i].sent = TRUE]
  /\ UNCHANGED OutsideNat64

\* The response head of attempt i arrives: attemptFn resolves.
Nat64ResponseArrives(i) ==
  /\ nat.attempt[i].phase \in {"exchange", "closing"}
  /\ nat.attempt[i].sent
  /\ nat' = resume(attemptSettles(nat, i, TRUE, ""), i)
  /\ UNCHANGED OutsideNat64

\* The exchange of attempt i fails: reset, headers timeout.
Nat64ExchangeFails(i) ==
  /\ nat.attempt[i].phase = "exchange"
  /\ nat' = resume(attemptSettles(nat, i, FALSE, "error"), i)
  /\ UNCHANGED OutsideNat64

\* client.close() of attempt i has reset the streams: the request rejects.
Nat64CloseDone(i) ==
  /\ nat.attempt[i].phase = "closing"
  /\ nat' = resume(attemptSettles(nat, i, FALSE, "error"), i)
  /\ UNCHANGED OutsideNat64

\* sleep(NAT64_HEDGE_DELAY_MS, signal) resolves with the first attempt
\* pending: the second candidate starts.
Nat64HedgeDelay ==
  /\ nat.delayPending
  /\ nat.pc = "firstOrDelay"
  /\ nat' = [startAttempt(nat, 1) EXCEPT !.pc = "race", !.awaiting = {0, 1},
                                         !.delayPending = FALSE,
                                         !.delayElapsed = TRUE]
  /\ UNCHANGED OutsideNat64

\* AbortSignal.timeout(NAT64_PER_PREFIX_TIMEOUT) of attempt i fires.
Nat64PrefixTimeout(i) ==
  /\ InFlight(nat.attempt[i])
  /\ ~nat.attempt[i].timedOut
  /\ LET s1 == [nat EXCEPT !.attempt[i].timedOut = TRUE]
         s2 == IF perPrefixAborted(nat, i) THEN s1
               ELSE abortAttempt(s1, i, "timeout")
     IN nat' = IF s2.attempt[i].phase = "done" THEN resume(s2, i) ELSE s2
  /\ UNCHANGED OutsideNat64

\* The caller's signal fires.
Nat64UserAbort ==
  /\ nat.pc # "idle"
  /\ ~nat.aborted
  /\ nat' = signalAborts(nat)
  /\ UNCHANGED OutsideNat64

NextNat64 ==
  \/ Nat64Call
  \/ \E i \in Candidates :
       \/ Nat64Connected(i)
       \/ Nat64ConnectFails(i)
       \/ Nat64Initialized(i)
       \/ Nat64InitFails(i)
       \/ Nat64RequestSent(i)
       \/ Nat64ResponseArrives(i)
       \/ Nat64ExchangeFails(i)
       \/ Nat64CloseDone(i)
       \/ Nat64PrefixTimeout(i)
  \/ Nat64HedgeDelay
  \/ Nat64UserAbort

InitNat64 == Nat64Init /\ FCIdle /\ ConnInit /\ ReqInit /\ bd = NewBody
  /\ dns = NewDns
  /\ cpool = NewPool
  /\ memo = NewMemo
  /\ hr = NewRetry
  /\ dp = NewDispatch
  /\ h1 = NewH1
  /\ tls = NewTls

SpecNat64 == InitNat64 /\ [][NextNat64]_vars

(***************************************************************************)
(* Claims on tryWithNat64.                                                 *)
(***************************************************************************)
Started(i) == nat.attempt[i].phase # "none"
Flying == {i \in Candidates : InFlight(nat.attempt[i])}
Serial == nat.pc # "idle" /\ ~nat.isIdempotent /\ ~nat.isStreamBody
Hedged == /\ nat.pc # "idle" /\ nat.isIdempotent /\ ~nat.isStreamBody
          /\ nat.candidates >= 2

\* C15: for a non-idempotent method with a non-stream body the candidates
\* are tried one at a time, a further candidate is started only if no
\* earlier attempt had started sending the request, and so at most one
\* attempt ever transmits the request.
C15_SerialNeverResends ==
  Serial =>
    /\ Cardinality(Flying) <= 1
    /\ \A i, j \in Candidates :
         (i < j /\ Started(j)) => ~nat.attempt[i].sent

\* C16: a hedged call hands at most one response to the caller, and once
\* the call and all its attempts have ended, every response an attempt
\* produced has been returned or has had its body cancelled.
C16_NoResponseLeftOpen ==
  Hedged =>
    /\ Cardinality({i \in Candidates : nat.attempt[i].response = "returned"}) <= 1
    /\ (nat.pc = "returned") =>
         \E i \in Candidates : nat.attempt[i].response = "returned"
    /\ (nat.pc \in {"returned", "thrown"} /\ Flying = {}) =>
         \A i \in Candidates : nat.attempt[i].response # "open"

\* C17: in a hedged call candidate 1 starts only after the hedge delay has
\* elapsed with candidate 0 pending, or after candidate 0 has failed; at
\* most two attempts are in flight at once; a later candidate starts only
\* after all earlier ones have failed, and is then alone in flight.
C17_HedgeOrder ==
  Hedged =>
    /\ Started(1) => (nat.delayElapsed \/ nat.attempt[0].result = "failed")
    /\ Cardinality(Flying) <= 2
    /\ \A k \in Candidates :
         (k >= 2 /\ Started(k)) =>
           /\ \A j \in 0..(k - 1) : nat.attempt[j].result = "failed"
           /\ Flying \subseteq {k}

\* C17 witness: both orders of the first wave have been run to the serial
\* tail: the delay elapsed, both of the first two failed, the third is in
\* flight.
C17_Witness ==
  /\ Hedged
  /\ nat.delayElapsed
  /\ nat.attempt[0].result = "failed"
  /\ nat.attempt[1].result = "failed"
  /\ InFlight(nat.attempt[2])

\* C18: an attempt that ended because the hedge winner cancelled it is not
\* recorded as a failure of its prefix.
C18_CancelledNotRecorded ==
  \A i \in Candidates :
    (nat.attempt[i].phase = "done" /\ nat.attempt[i].why = "cancel")
      => nat.health[i].fail = 0

(***************************************************************************)
(* SpecDns: callers resolving hostnames through the detector while time    *)
(* passes.                                                                 *)
(***************************************************************************)
DnsInit == dns = NewDns

\* A transport asks for the CDN check of a hostname.
DnsResolve(c) ==
  /\ dns.caller[c].pc = "idle"
  /\ \E hostname \in Hostnames :
       dns' = resolveAndCheckCloudflareCached(dns, c, hostname)
  /\ UNCHANGED OutsideDns

\* The DoH lookup of a key answers.
DnsLookupDone(key) ==
  /\ key \in dns.dnsInflight
  /\ \E result \in DnsAnswers : dns' = lookupSettles(dns, key, result)
  /\ UNCHANGED OutsideDns

\* The DoH lookup of a key fails: the degraded result is cached.
DnsLookupFails(key) ==
  /\ key \in dns.dnsInflight
  /\ dns' = lookupSettles(dns, key, Degraded)
  /\ UNCHANGED OutsideDns

\* The direct connection of caller c is blocked: the transport asks
\* resolveNat64IPv4 for the address, with the address of its check
\* (autoRequestCompat, autoRequestFastH1) or with none (h2Request,
\* http11Request).
DnsNat64Fallback(c) ==
  /\ dns.caller[c].pc = "checked"
  /\ \E existingIPv4 \in {dns.caller[c].seen, "undefined"} :
       dns' = resolveNat64IPv4(dns, c, existingIPv4)
  /\ UNCHANGED OutsideDns

\* resolveIPv4 of caller c answers or fails.
DnsResolveIPv4Done(c) ==
  /\ dns.caller[c].pc = "resolveIPv4"
  /\ \E result \in DnsAnswers \cup {Degraded} :
       dns' = [dns EXCEPT !.caller[c].pc = "done",
                          !.caller[c].seen = result.ipv4,
                          !.queries = [i \in 1..Len(@) |->
                            IF @[i].by = "resolveIPv4" /\ @[i].answer = "pending"
                               /\ @[i].key = dns.caller[c].key
                            THEN [@[i] EXCEPT !.answer = result.ipv4] ELSE @[i]]]
  /\ UNCHANGED OutsideDns

\* The request of caller c ends without the fallback.
DnsCallerDone(c) ==
  /\ dns.caller[c].pc = "checked"
  /\ dns' = [dns EXCEPT !.caller[c].pc = "done"]
  /\ UNCHANGED OutsideDns

\* Time passes.
DnsTick ==
  /\ dns.now < MaxTime
  /\ dns' = [dns EXCEPT !.now = @ + 1]
  /\ UNCHANGED OutsideDns

NextDns ==
  \/ \E c \in DnsCallers :
       \/ DnsResolve(c)
       \/ DnsNat64Fallback(c)
       \/ DnsResolveIPv4Done(c)
       \/ DnsCallerDone(c)
  \/ \E key \in {hostKey(h) : h \in Hostnames} :
       \/ DnsLookupDone(key)
       \/ DnsLookupFails(key)
  \/ DnsTick

InitDns ==
  DnsInit /\ FCIdle /\ ConnInit /\ ReqInit /\ bd = NewBody /\ nat = NewNat64
  /\ cpool = NewPool
  /\ memo = NewMemo
  /\ hr = NewRetry
  /\ dp = NewDispatch
  /\ h1 = NewH1
  /\ tls = NewTls

SpecDns == InitDns /\ [][NextDns]_vars

(***************************************************************************)
(* Claims on the DNS detector.                                             *)
(***************************************************************************)
\* C21: while a hostname has a live cache entry or a lookup in flight, no
\* further DoH query is issued for it, however many callers resolve it, and
\* every caller that resolved it then holds the answer of that one query.
C21_SingleFlight ==
  /\ \A i \in 1..Len(dns.queries) : ~dns.queries[i].covered
  /\ \A c \in DnsCallers :
       dns.caller[c].pc \in {"checked", "done"}
         => dns.caller[c].seen = dns.queries[dns.caller[c].of].answer

(***************************************************************************)
(* The connection pool: its operations, the clock, and what happens to     *)
(* the pooled clients outside the pool.                                    *)
(***************************************************************************)
PoolInit == cpool = NewPool

PoolPut(c) ==
  /\ \E o \in PoolOrigins :
       cpool' = poolClient(cpool, makeKey(o.hostname, o.connectHostname), c)
  /\ UNCHANGED OutsidePool

PoolGet ==
  /\ \E o \in PoolOrigins :
       cpool' = getPooledClient(cpool, makeKey(o.hostname, o.connectHostname))
  /\ UNCHANGED OutsidePool

PoolRemove ==
  /\ \E o \in PoolOrigins :
       cpool' = removePooled(cpool, makeKey(o.hostname, o.connectHostname))
  /\ UNCHANGED OutsidePool

PoolClear ==
  /\ cpool' = clearPool(cpool)
  /\ UNCHANGED OutsidePool

PoolTick ==
  /\ cpool.now < MaxClock
  /\ cpool' = [cpool EXCEPT !.now = @ + 1]
  /\ UNCHANGED OutsidePool

PoolClientInitialized(c) ==
  /\ ~cpool.client[c].initialized
  /\ cpool' = [cpool EXCEPT !.client[c].initialized = TRUE]
  /\ UNCHANGED OutsidePool

PoolStreamOpens(c) ==
  /\ isReady(cpool.client[c])
  /\ cpool.client[c].activeStreamCount < cpool.client[c].maxConcurrentStreams
  /\ cpool' = [cpool EXCEPT !.client[c].activeStreamCount = @ + 1]
  /\ UNCHANGED OutsidePool

PoolStreamCloses(c) ==
  /\ cpool.client[c].activeStreamCount > 0
  /\ cpool' = [cpool EXCEPT !.client[c].activeStreamCount = @ - 1]
  /\ UNCHANGED OutsidePool

PoolGoaway(c) ==
  /\ cpool.client[c].initialized
  /\ ~cpool.client[c].goawayReceived
  /\ cpool' = handleGoaway(cpool, c)
  /\ UNCHANGED OutsidePool

NextPool ==
  \/ \E c \in PoolClients : PoolPut(c)
  \/ PoolGet
  \/ PoolRemove
  \/ PoolClear
  \/ PoolTick
  \/ \E c \in PoolClients : PoolClientInitialized(c)
  \/ \E c \in PoolClients : PoolStreamOpens(c)
  \/ \E c \in PoolClients : PoolStreamCloses(c)
  \/ \E c \in PoolClients : PoolGoaway(c)

InitPool ==
  /\ PoolInit
  /\ FCIdle
  /\ ConnInit
  /\ ReqInit
  /\ bd = NewBody
  /\ nat = NewNat64
  /\ dns = NewDns
  /\ memo = NewMemo
  /\ hr = NewRetry
  /\ dp = NewDispatch
  /\ h1 = NewH1
  /\ tls = NewTls

SpecPool == InitPool /\ [][NextPool]_vars

\* C22: the client getPooledClient returns has hasCapacity true when it is
\* returned and comes from an entry whose age (now - lastUsedAt) is within
\* POOL_TTL; an entry failing either test is not returned.
C22_ReturnedUsable ==
  cpool.returned.client # 0 =>
    /\ cpool.returned.hasCapacity
    /\ cpool.returned.age <= POOL_TTL

\* A client with capacity is returned from an entry exactly POOL_TTL old.
C22_Witness ==
  /\ cpool.returned.client # 0
  /\ cpool.returned.age = POOL_TTL
  /\ cpool.returned.hasCapacity
  /\ cpool.client[cpool.returned.client].onGoaway # <<>>

\* C23: however the pool churns, a client carries at most one GOAWAY
\* listener registered by the pool.
C23_OneGoawayListener ==
  \A c \in PoolClients : Len(cpool.client[c].onGoaway) <= 1

\* A client that already carries its listener sits in the pool under a key
\* other than the one the listener was registered with.
C23_Witness ==
  \E c \in PoolClients :
    /\ Len(cpool.client[c].onGoaway) = 1
    /\ \E i \in 1..Len(cpool.pool) :
         /\ cpool.pool[i].client = c
         /\ cpool.pool[i].key # cpool.client[c].onGoaway[1]

(***************************************************************************)
(* The protocol memo: its two operations and the clock.                    *)
(***************************************************************************)
MemoInit == memo = NewMemo

MemoGet ==
  /\ \E h \in MemoHosts : memo' = getCachedProtocol(memo, protocolKey(h))
  /\ UNCHANGED OutsideMemo

MemoSet ==
  /\ \E h \in MemoHosts, protocol \in Protocols :
       memo' = setCachedProtocol(memo, protocolKey(h), protocol)
  /\ UNCHANGED OutsideMemo

MemoTick ==
  /\ memo.now < MaxMemoClock
  /\ memo' = [memo EXCEPT !.now = @ + 1]
  /\ UNCHANGED OutsideMemo

NextMemo ==
  \/ MemoGet
  \/ MemoSet
  \/ MemoTick

InitMemo ==
  /\ MemoInit
  /\ FCIdle
  /\ ConnInit
  /\ ReqInit
  /\ bd = NewBody
  /\ nat = NewNat64
  /\ dns = NewDns
  /\ cpool = NewPool
  /\ hr = NewRetry
  /\ dp = NewDispatch
  /\ h1 = NewH1
  /\ tls = NewTls

SpecMemo == InitMemo /\ [][NextMemo]_vars

\* C24: the memo never holds more than PROTOCOL_MAX_ENTRIES entries, and a
\* call removes an entry to make room only when it inserts a new key into a
\* full memo, the entry removed being the least recently read or written.
C24_LruEviction ==
  /\ Len(memo.cache) <= PROTOCOL_MAX_ENTRIES
  /\ memo.last.evicted # "" =>
       /\ memo.last.full
       /\ memo.last.newKey
       /\ memo.last.evicted = memo.last.least

(***************************************************************************)
(* Claims on the handshake, the stream states and GOAWAY.                  *)
(***************************************************************************)
\* The frames submitted so far: handed to socket.write() or still pending.
Submitted == Wire \o h2.pendingWrites

\* C25: no HEADERS frame is submitted for writing before the connection is
\* fully ready: handleSettingsFrame has taken a SETTINGS of the peer and the
\* peer's ACK of our SETTINGS, each resolving its half of the ready promise.
C25_HeadersAfterReady ==
  (\E i \in 1..Len(Submitted) : Submitted[i].type = "HEADERS")
    => /\ h2.remoteSettingsResolved
       /\ h2.settingsAckResolved

\* A request started before the exchange was over, waited, and its HEADERS
\* frame has reached the socket.
C25_Witness ==
  /\ \E i \in 1..Len(Wire) : Wire[i].type = "HEADERS"
  /\ \E t \in Requests : h2.task[t].viaReady

(***************************************************************************)
(* SpecReady: the handshake alone, with the scheduling the event loop      *)
(* guarantees: a queued microtask runs and the callback of a socket write  *)
(* is called.  The peer sends its SETTINGS and its ACK at moments of its   *)
(* choice once initialisation has begun; timers may expire.                *)
(***************************************************************************)
NextReady ==
  \/ StartInitialize
  \/ \E t \in Requests : StartRequest(t)
  \/ \E t \in Requests : SettingsTimeout(t)
  \/ \E f \in {PeerSettings, PeerSettingsAck} : SocketData(f)
  \/ SocketWriteDone
  \/ RunFlush
  \/ RunResume

FairReady ==
  /\ WF_vars(RunFlush)
  /\ WF_vars(RunResume)
  /\ WF_vars(SocketWriteDone)

SpecReady == InitConn /\ [][NextReady]_vars /\ FairReady

\* C26: once the peer's SETTINGS and the peer's ACK have both arrived, at
\* whatever moment after initialisation began, the connection eventually
\* becomes ready: both halves of the ready promise are resolved, so that a
\* waitForReady resolves instead of timing out.
C26_HandshakeLeadsToReady ==
  (h2.hsSettings /\ h2.hsAck) ~> readyResolved(h2)

\* The states a stream in state `from` may be in after one handler, by the
\* transitions of the state machine: idle to open on sending HEADERS, open
\* to half-closed on a sent or received END_STREAM, half-closed to closed on
\* the opposite END_STREAM, any state to closed; "none" is a stream not yet
\* created.  A handler may take several transitions in a row.
Reachable(from) ==
  CASE from = "none" -> {"none", "idle", "open", "half-closed-local",
                         "half-closed-remote", "closed"}
    [] from = "idle" -> {"idle", "open", "half-closed-local",
                         "half-closed-remote", "closed"}
    [] from = "open" -> {"open", "half-closed-local", "half-closed-remote", "closed"}
    [] from = "half-closed-local" -> {"half-closed-local", "closed"}
    [] from = "half-closed-remote" -> {"half-closed-remote", "closed"}
    [] OTHER -> {"closed"}

\* C27: a stream's state changes only along the specified transitions, and
\* closed is terminal: no step moves a stream out of closed.
C27_StateMachine ==
  [][\A s \in StreamIds : h2.stream[s].state' \in Reachable(h2.stream[s].state)]_vars

(***************************************************************************)
(* SpecDrain: the connection of SpecConn while the pool holds its client,  *)
(* as it does from preconnect or from the cleanup of an earlier response.  *)
(***************************************************************************)
InitDrain ==
  /\ h2 = [NewConnection EXCEPT !.pooled = TRUE]
  /\ FCIdle
  /\ ReqInit
  /\ bd = NewBody
  /\ nat = NewNat64
  /\ dns = NewDns
  /\ cpool = NewPool
  /\ memo = NewMemo
  /\ hr = NewRetry
  /\ dp = NewDispatch
  /\ h1 = NewH1
  /\ tls = NewTls

SpecDrain == InitDrain /\ [][NextConn]_vars

\* C28: once a GOAWAY has been received no new stream is created on the
\* connection, and the streams the GOAWAY left in progress (id <= L) are not
\* failed or closed as a consequence of it.
C28_Draining ==
  [][/\ h2.goawayReceived => h2.nextStreamId' = h2.nextStreamId
     /\ h2.goawayFailed' = {}]_vars

(***************************************************************************)
(* SpecShape: a connection with its handshake and its requests, whose peer *)
(* sends frames of an illegal shape: a wrong payload length for a frame of *)
(* fixed length, SETTINGS on a stream, SETTINGS ACK with a payload, and    *)
(* WINDOW_UPDATE with increment 0 on stream 0.                             *)
(***************************************************************************)
IllegalFrames ==
  {Plain(type, 0, "bad") : type \in {"SETTINGS", "PING", "GOAWAY", "WINDOW_UPDATE"}}
  \cup {Plain(type, s, "bad") : type \in {"RST_STREAM", "WINDOW_UPDATE"}, s \in StreamIds}
  \cup {Plain("SETTINGS", s, "ok") : s \in StreamIds}
  \cup {[Plain("SETTINGS", 0, "bad") EXCEPT !.ack = TRUE]}
  \cup {[Plain("WINDOW_UPDATE", 0, "ok") EXCEPT !.val = 0]}

\* The error code the protocol assigns to an illegal frame.
ShapeError(f) == IF f.shape = "bad" THEN "FRAME_SIZE_ERROR" ELSE "PROTOCOL_ERROR"

NextShape ==
  \/ StartInitialize
  \/ \E t \in Requests : StartRequest(t)
  \/ \E f \in {PeerSettings, PeerSettingsAck} : SocketData(f)
  \/ \E f \in IllegalFrames : SocketData(f)
  \/ SocketWriteDone
  \/ RunFlush
  \/ RunResume

SpecShape == InitConn /\ [][NextShape]_vars

\* C29: a frame of an illegal shape taken by a connection that is not closed
\* makes it submit a GOAWAY with the corresponding error code and close:
\* closed, every stream failed and out of the map, the socket ended.
C29_IllegalShapeCloses ==
  [][\A f \in IllegalFrames :
       (SocketData(f) /\ ~h2.closed)
         => /\ h2.closed'
            /\ h2.socketEnded'
            /\ h2.streams' = {}
            /\ GoawaySubmitted(ShapeError(f))']_vars

\* C30: a stream for which the connection has submitted RST_STREAM is closed
\* locally, its response is not left pending and its body is not left open.
C30_ResetClosesLocally ==
  \A i \in 1..Len(Submitted) :
     Submitted[i].type = "RST_STREAM"
       => LET st == h2.stream[Submitted[i].sid] IN
          /\ st.state = "closed"
          /\ st.response # "waiting"
          /\ st.body # "open"

(***************************************************************************)
(* SpecStreams: a connection, its requests, and a peer that announces and  *)
(* changes SETTINGS_MAX_CONCURRENT_STREAMS.                                *)
(***************************************************************************)
ConcurrencyFrames ==
  {[Plain("SETTINGS", 0, "ok") EXCEPT !.set = <<Setting("MAX_CONCURRENT_STREAMS", n)>>] :
      n \in 0..MaxRequests}

NextStreams ==
  \/ StartInitialize
  \/ \E t \in Requests : StartRequest(t)
  \/ \E f \in {PeerSettings, PeerSettingsAck} : SocketData(f)
  \/ \E f \in ConcurrencyFrames : SocketData(f)
  \/ SocketWriteDone
  \/ RunFlush
  \/ RunResume

SpecStreams == InitConn /\ [][NextStreams]_vars

\* C31: in every reachable state the number of streams the connection has
\* open (its streams map) is at most the peer's current
\* MAX_CONCURRENT_STREAMS setting.
C31_WithinPeerLimit ==
  Cardinality(h2.streams) <= maxConcurrentStreams(h2)

\* The receive credit for the connection in a sequence of frames: the sum of
\* the increments of its WINDOW_UPDATE frames on stream 0.
RECURSIVE Credit(_)
Credit(frames) ==
  IF frames = <<>> THEN 0
  ELSE (IF Head(frames).type = "WINDOW_UPDATE" /\ Head(frames).sid = 0
        THEN Head(frames).increment ELSE 0) + Credit(Tail(frames))

\* The frames the step has handed to the socket.
Written == SubSeq(Flat(h2.socketWrites'), Len(Wire) + 1, Len(Flat(h2.socketWrites')))

\* C32: every DATA frame received by a connection that is not closed is
\* counted at the connection level: its payload length is added to the
\* pending counter, or credited back to the peer in a WINDOW_UPDATE on
\* stream 0 that zeroes the counter, so that credit plus pending counter
\* equal the DATA bytes received.
C32_ReceiveAccounting ==
  [][\A f \in DataFrames :
       (SocketData(f) /\ ~h2.closed)
         => h2.connectionRecvWindowConsumed' + Credit(Written)
              = h2.connectionRecvWindowConsumed + f.val]_vars

\* The size of the DATA chunk task t is sending.
ChunkSize(t) ==
  Min(h2.task[t].body, remoteSetting(h2, "MAX_FRAME_SIZE", DEFAULT_MAX_FRAME_SIZE))

\* C33: connection-level send credit is debited only for DATA that is
\* written: when a send that has already debited the connection window is
\* abandoned while it waits for its stream window, on a connection that
\* stays open, the step returns the debited credit to the connection window.
C33_DebitOnlyWritten ==
  [][\A t \in Requests :
       (/\ h2.task[t].pc = "sendData:stream"
        /\ h2.task[t].pc' \notin {"sendData:stream", "sendData:write"}
        /\ ~h2.closed')
         => h2.connectionSendWindow.available'
              >= h2.connectionSendWindow.available + ChunkSize(t)]_vars

\* C34: the pool closes an HTTP/2 client only when no request's stream is
\* still active on it: a lookup (TTL expiry, capacity test), a pooling call
\* (replacement, eviction) or the GOAWAY listener, whose caller has no
\* stream of its own on the client, closes no client that has active streams.
C34_CloseOnlyIdle ==
  [][(PoolGet \/ (\E c \in PoolClients : PoolPut(c))
             \/ (\E c \in PoolClients : PoolGoaway(c)))
       => \A c \in PoolClients :
            (~cpool.client[c].closed /\ cpool.client[c].closed')
              => cpool.client[c].activeStreamCount = 0]_vars

\* The streams whose response header block is received but not yet decoded
\* and delivered.
Decoding == {h2.microtasks[i].sid : i \in {k \in 1..Len(h2.microtasks) :
                                            h2.microtasks[k].kind = "decode"}}

\* C35: inbound frames take effect in arrival order: when a DATA, RST_STREAM
\* or HEADERS frame of a stream, or a GOAWAY, is applied, no header block of
\* that stream (for GOAWAY: of any stream) received earlier is still waiting
\* to be decoded and delivered.
C35_ArrivalOrder ==
  [][\A f \in InFrames :
       (SocketData(f) /\ f.type \in {"DATA", "RST_STREAM", "HEADERS", "GOAWAY"})
         => IF f.type = "GOAWAY" THEN Decoding = {} ELSE f.sid \notin Decoding]_vars

(***************************************************************************)
(* SpecRetry: one h2RequestWithConnect call, the pool and the clients      *)
(* other requests pool under the same origin.                              *)
(***************************************************************************)
HrState == [hr |-> hr, pool |-> cpool]

HrSet(s) ==
  /\ hr' = s.hr
  /\ cpool' = s.pool

HrCall ==
  /\ hr.pc = "idle"
  /\ HrSet(h2RequestWithConnect(HrState))
  /\ UNCHANGED OutsideRetry

HrConnectSettles ==
  /\ hr.pc \in {"connecting", "reconnecting"}
  /\ \E ok \in BOOLEAN : HrSet(connectSettled(HrState, ok))
  /\ UNCHANGED OutsideRetry

HrAbort ==
  /\ ~hr.aborted
  /\ hr.pc \notin {"done", "failed"}
  /\ HrSet(onAbort(HrState))
  /\ UNCHANGED OutsideRetry

\* client.request resolves with a response.
HrResponse ==
  /\ hr.pc \in {"requesting", "retrying"}
  /\ ~hrClosed(HrState, hr.client)
  /\ HrSet([HrState EXCEPT !.hr.pc = "done"])
  /\ UNCHANGED OutsideRetry

\* client.request rejects.
HrRequestRejects ==
  /\ hr.pc \in {"requesting", "retrying"}
  /\ \E cause \in FailureCauses :
       HrSet(IF hr.pc = "requesting" THEN catchRequest(HrState, cause)
             ELSE catchRetry(HrState, cause))
  /\ UNCHANGED OutsideRetry

\* Another request's response cleanup pools its client under the origin.
HrOtherPools(c) ==
  /\ hasCapacity(cpool.client[c])
  /\ cpool' = poolClient(cpool, HrKey, c)
  /\ UNCHANGED <<hr>>
  /\ UNCHANGED OutsideRetry

HrClientInitialized(c) ==
  /\ ~cpool.client[c].initialized
  /\ cpool' = [cpool EXCEPT !.client[c].initialized = TRUE]
  /\ UNCHANGED <<hr>>
  /\ UNCHANGED OutsideRetry

HrGoaway(c) ==
  /\ cpool.client[c].initialized
  /\ ~cpool.client[c].goawayReceived
  /\ cpool' = handleGoaway(cpool, c)
  /\ UNCHANGED <<hr>>
  /\ UNCHANGED OutsideRetry

HrTick ==
  /\ cpool.now < MaxClock
  /\ cpool' = [cpool EXCEPT !.now = @ + 1]
  /\ UNCHANGED <<hr>>
  /\ UNCHANGED OutsideRetry

NextRetry ==
  \/ HrCall
  \/ HrConnectSettles
  \/ HrAbort
  \/ HrResponse
  \/ HrRequestRejects
  \/ \E c \in PoolClients : HrOtherPools(c)
  \/ \E c \in PoolClients : HrClientInitialized(c)
  \/ \E c \in PoolClients : HrGoaway(c)
  \/ HrTick

InitRetry ==
  /\ FCIdle
  /\ ConnInit
  /\ ReqInit
  /\ bd = NewBody
  /\ nat = NewNat64
  /\ dns = NewDns
  /\ cpool = NewPool
  /\ memo = NewMemo
  /\ hr = NewRetry
  /\ dp = NewDispatch
  /\ h1 = NewH1
  /\ tls = NewTls

SpecRetry == InitRetry /\ [][NextRetry]_vars

DpState == [dp |-> dp, nat |-> nat]

DpSet(s) ==
  /\ dp' = s.dp
  /\ nat' = s.nat

DpCall ==
  /\ dp.pc = "idle"
  /\ \E path \in DispatchPaths, cached \in {"", "h2", "http/1.1"},
        isCf \in BOOLEAN, isStreamBody \in BOOLEAN, idempotent \in BOOLEAN :
       /\ path # "auto" => cached = ""
       /\ LET s == [DpState EXCEPT !.dp.path = path, !.dp.cached = cached,
                                   !.dp.isCf = isCf,
                                   !.dp.isStreamBody = isStreamBody,
                                   !.dp.idempotent = idempotent] IN
          DpSet(IF path = "auto" THEN autoRequestCompat(s) ELSE forcedRequest(s))
  /\ UNCHANGED OutsideDispatch

\* The attempt in flight (direct, WASM TLS or platform TLS) returns a response.
DpAttemptSucceeds ==
  /\ dp.pc \in {"direct:h2", "direct:h1", "wasm", "platform"}
  /\ DpSet([DpState EXCEPT !.dp.pc = "returned"])
  /\ UNCHANGED OutsideDispatch

DpAttemptFails ==
  /\ dp.pc \in {"direct:h2", "direct:h1", "wasm", "platform"}
  /\ \E err \in DirectErrors :
       DpSet(IF dp.path = "auto" THEN autoRequestCompatCatch(DpState, err)
             ELSE forcedRequestCatch(DpState, err))
  /\ UNCHANGED OutsideDispatch

DpResolveSettles ==
  /\ dp.pc = "resolve"
  /\ \E ipv4 \in BOOLEAN : DpSet(resolveSettled(DpState, ipv4))
  /\ UNCHANGED OutsideDispatch

\* The request signal aborts.
DpAbort ==
  /\ ~dp.aborted
  /\ dp.pc \notin {"returned", "thrown", "nat64"}
  /\ DpSet([DpState EXCEPT !.dp.aborted = TRUE])
  /\ UNCHANGED OutsideDispatch

NextDispatch ==
  \/ DpCall
  \/ DpAttemptSucceeds
  \/ DpAttemptFails
  \/ DpResolveSettles
  \/ DpAbort

InitDispatch ==
  /\ FCIdle
  /\ ConnInit
  /\ ReqInit
  /\ bd = NewBody
  /\ nat = NewNat64
  /\ dns = NewDns
  /\ cpool = NewPool
  /\ memo = NewMemo
  /\ hr = NewRetry
  /\ dp = NewDispatch
  /\ h1 = NewH1
  /\ tls = NewTls

SpecDispatch == InitDispatch /\ [][NextDispatch]_vars

\* C37: after a direct attempt has failed with a sandbox-blocked network
\* error, a request with a stream body is not taken to NAT64 on any path:
\* the address is not resolved for NAT64 and no NAT64 attempt is started.
C37_StreamBodyNoNat64 ==
  (dp.directFailed = "blocked" /\ dp.isStreamBody)
    => /\ dp.pc \notin {"resolve", "nat64"}
       /\ nat.attempt[0].phase = "none"

(***************************************************************************)
(* SpecH1: one HTTP/1.1 response read from a socket by either reader; the  *)
(* server may close the connection at any point of the response.           *)
(***************************************************************************)
\* The web reader has a socket.read() pending: in the read loop of
\* readResponse, or in a pull of the body stream with no leftover data.
WebReading ==
  \/ h1.response = "pending"
  \/ h1.body = "open" /\ ~h1.hasLeftover

H1Init ==
  \E impl \in H1Impls, continue \in BOOLEAN, partial \in BOOLEAN,
     mode \in BodyModes, n \in 0..MaxContent :
    h1 = [NewH1 EXCEPT !.impl = impl,
                       !.wire = H1Wire(continue, partial, mode, n),
                       !.bodyMode = mode,
                       !.contentLength = IF mode = "content-length" THEN n ELSE 0]

\* The socket delivers the next k bytes of the response.
H1Data(k) ==
  /\ ~h1.ended
  /\ h1.pos + k <= Len(h1.wire)
  /\ h1.impl = "web" => WebReading
  /\ LET chunk == SubSeq(h1.wire, h1.pos + 1, h1.pos + k)
         s == [h1 EXCEPT !.pos = @ + k] IN
     h1' = IF h1.impl = "node"
           THEN (IF h1.listening THEN onData(s, chunk) ELSE s)
           ELSE IF h1.response = "pending" THEN readResponse(s, chunk)
           ELSE pullData(s, chunk)
  /\ UNCHANGED OutsideH1

\* The socket reports the end of the connection.
H1End ==
  /\ ~h1.ended
  /\ h1.impl = "web" => WebReading
  /\ LET s == [h1 EXCEPT !.ended = TRUE] IN
     h1' = IF h1.impl = "node"
           THEN (IF h1.listening THEN onEnd(s) ELSE s)
           ELSE IF h1.response = "pending" THEN readResponseDone(s)
           ELSE h1PullDone(s)
  /\ UNCHANGED OutsideH1

\* A pull of the web body stream that finds the data read with the head.
H1PullLeftover ==
  /\ h1.impl = "web"
  /\ h1.body = "open" /\ h1.hasLeftover
  /\ h1' = pullData([h1 EXCEPT !.hasLeftover = FALSE], h1.initialData)
  /\ UNCHANGED OutsideH1

NextH1 ==
  \/ \E k \in 1..MaxRead : H1Data(k)
  \/ H1End
  \/ H1PullLeftover

InitH1 ==
  /\ FCIdle
  /\ ConnInit
  /\ ReqInit
  /\ bd = NewBody
  /\ nat = NewNat64
  /\ dns = NewDns
  /\ cpool = NewPool
  /\ memo = NewMemo
  /\ hr = NewRetry
  /\ dp = NewDispatch
  /\ H1Init
  /\ tls = NewTls

SpecH1 == InitH1 /\ [][NextH1]_vars

\* The body of the response is complete by its framing.
H1Complete ==
  \/ h1.bodyMode = "content-length" /\ h1.bodyBytesReceived >= h1.contentLength
  \/ h1.bodyMode = "chunked" /\ h1.decoderDone

\* C38: in content-length or chunked mode the response body is closed only
\* when it is complete; a connection that ends before that errors the body.
C38_EofErrorsBody ==
  (h1.bodyMode \in {"content-length", "chunked"} /\ h1.body = "closed")
    => H1Complete

\* C39: while no response has been produced, the reader is never left
\* waiting for socket data with a complete head in its buffer: a 100
\* Continue head is stripped and the head that follows it in the bytes
\* already buffered is parsed in the same pass.
C39_BufferedHeadParsed ==
  h1.response = "pending" => ~parseResponseHead(h1.headBuffer).found

(***************************************************************************)
(* SpecTls: one TLS session, its socket and its consumer.                  *)
(***************************************************************************)
\* rawSocket.read() of the pump settles with a record of ciphertext.
TlsSocketData ==
  /\ tls.pump = "reading"
  /\ \E plaintext \in 0..MaxPlain, needsWrite \in BOOLEAN :
       tls' = pumpLoop(tls, plaintext, needsWrite)
  /\ UNCHANGED OutsideTls

\* rawSocket.read() of the pump settles with done.
TlsSocketEnd ==
  /\ tls.pump = "reading"
  /\ tls' = pumpLoopDone(tls)
  /\ UNCHANGED OutsideTls

\* rawSocket.write(out) of the pump settles.
TlsWriteSettles ==
  /\ tls.pump = "writing"
  /\ \E ok \in BOOLEAN :
       tls' = IF ok THEN pumpPlaintext([tls EXCEPT !.held = 0], tls.held)
              ELSE pumpCatch(tls)
  /\ UNCHANGED OutsideTls

\* The pump goes on after its backpressure promise has resolved.
TlsPumpResumes ==
  /\ tls.pump = "released"
  /\ tls' = pumpLoopTest(tls)
  /\ UNCHANGED OutsideTls

\* The consumer calls read(); it has no read pending.
TlsRead ==
  /\ ~tls.waiter
  /\ tls' = tlsRead(tls)
  /\ UNCHANGED OutsideTls

\* The consumer calls close().
TlsClose ==
  /\ tls' = tlsClose(tls)
  /\ UNCHANGED OutsideTls

NextTls ==
  \/ TlsSocketData
  \/ TlsSocketEnd
  \/ TlsWriteSettles
  \/ TlsPumpResumes
  \/ TlsRead
  \/ TlsClose

InitTls ==
  /\ FCIdle
  /\ ConnInit
  /\ ReqInit
  /\ bd = NewBody
  /\ nat = NewNat64
  /\ dns = NewDns
  /\ cpool = NewPool
  /\ memo = NewMemo
  /\ hr = NewRetry
  /\ dp = NewDispatch
  /\ h1 = NewH1
  /\ tls = NewTls

SpecTls == InitTls /\ [][NextTls]_vars

\* C40: the pump is not reading ciphertext while HIGH_WATER or more bytes
\* of plaintext are queued; it stays suspended only while LOW_WATER or more
\* are queued; and it is not suspended once close() has been called.
C40_PumpBackpressure ==
  /\ tls.queuedBytes >= HIGH_WATER => tls.pump # "reading"
  /\ tls.pump = "paused" => tls.queuedBytes >= LOW_WATER
  /\ tls.closed => tls.pump # "paused"

====
